---- MODULE Spec2Model ----
(***************************************************************************)
(* Normalization and indexing pipeline of the AFCA watershed dataset:      *)
(*   scripts/process-usgs-raw-data.py      (USGSRawDataProcessor, U_...)   *)
(*   scripts/process-water-data.py         (WaterDataProcessor,  W_...)    *)
(*   scripts/create-sample-watershed-data.py (update_manifest_with_...)    *)
(*                                                                         *)
(* Numbers are fixed-point integers in thousandths (12.0 is 12000).  The   *)
(* raw values of the model are multiples of 0.5, which binary floating     *)
(* point represents exactly, so Python's round() (round-half-even on the   *)
(* stored value) coincides with exact round-half-even on the quotient;     *)
(* the one exception is the reading 0.045, which binary floating point     *)
(* does not represent exactly (see MeanError).                             *)
(* Dates "YYYY-MM-DD" are the integers YYYYMMDD: string order on such      *)
(* dates is integer order, date[:4] is date \div 10000.  A dateTime is     *)
(* date * 100 + hour, and dateTime[:10] is dateTime \div 100.              *)
(* A file name is the sequence of its "-"-separated parts plus its         *)
(* extension: location-410-2023.json is <<"location","410","2023">>, json. *)
(***************************************************************************)
EXTENDS Integers, Sequences, FiniteSets, TLC

VARIABLES
    fs,        \* the data directories: path -> content of the file there
    manifest,  \* manifest.json
    input,     \* the raw payload most recently handed to a handler
    result,    \* the value most recently returned by a pure helper
    pc,        \* the operation that ran last
    ops        \* number of operations run so far

vars == <<fs, manifest, input, result, pc, ops>>

(* ------------------------------ bounds -------------------------------- *)
MaxSamples == 2
MaxQualifiers == 3
MaxOps == 3
MaxFiles == 2
MaxStationYears == 4
MaxReadings == 32
\* calls of validate_file in one run of the validator
MaxCalls == 2

(* ------------------------- generic helpers ---------------------------- *)
SeqsUpTo(S, n) == UNION {[1..k -> S] : k \in 0..n}

RECURSIVE SumSeq(_)
SumSeq(s) == IF s = <<>> THEN 0 ELSE Head(s) + SumSeq(Tail(s))

RECURSIVE MinSeq(_)
MinSeq(s) == IF Len(s) = 1 THEN s[1]
             ELSE LET m == MinSeq(Tail(s)) IN IF s[1] <= m THEN s[1] ELSE m

RECURSIVE MaxSeq(_)
MaxSeq(s) == IF Len(s) = 1 THEN s[1]
             ELSE LET m == MaxSeq(Tail(s)) IN IF s[1] >= m THEN s[1] ELSE m

Range(s) == {s[i] : i \in 1..Len(s)}

(* ------------------------------ numbers ------------------------------- *)
\* the unit of the last kept digit when rounding to `ndigits` decimals
Unit(ndigits) == IF ndigits = 0 THEN 1000 ELSE IF ndigits = 1 THEN 100 ELSE 10

\* round(num / den, ndigits): nearest multiple of the unit, ties to even
Round(num, den, ndigits) ==
    LET D == den * Unit(ndigits)
        f == num \div D
        r == num - f * D
    IN  IF 2 * r < D THEN f * Unit(ndigits)
        ELSE IF 2 * r > D THEN (f + 1) * Unit(ndigits)
        ELSE IF f % 2 = 0 THEN f * Unit(ndigits) ELSE (f + 1) * Unit(ndigits)

\* sum(values) / len(values) in binary floating point: the sign of the
\* difference between the stored quotient and the exact one.  Multiples of
\* 1/8 are stored exactly and so are their quotients in the model; 0.045 is
\* stored just below 0.045, and so are the means of 1, 2 and 4 such readings,
\* while (0.045 + 0.045 + 0.045) / 3 is stored as 0.045000000000000005.
MeanError(values) ==
    CASE \A i \in 1..Len(values) : values[i] % 125 = 0 -> 0
      [] (\A i \in 1..Len(values) : values[i] = 45) /\ Len(values) = 3 -> 1
      [] (\A i \in 1..Len(values) : values[i] = 45) /\ Len(values) /= 3 -> -1

\* round(sum(values) / len(values), ndigits): round() rounds the stored
\* quotient, which is a tie only when it is exact
RoundMean(values, ndigits) ==
    LET num == SumSeq(values)
        D == Len(values) * Unit(ndigits)
        f == num \div D
    IN  IF 2 * (num - f * D) /= D THEN Round(num, Len(values), ndigits)
        ELSE IF MeanError(values) < 0 THEN f * Unit(ndigits)
        ELSE IF MeanError(values) > 0 THEN (f + 1) * Unit(ndigits)
        ELSE Round(num, Len(values), ndigits)

\* round(x, ndigits) of one stored number
RoundFloat(x, ndigits) == RoundMean(<<x>>, ndigits)

\* the characters of a decimal numeral
DecimalDigits == {"0", "1", "2", "3", "4", "5", "6", "7", "8", "9"}

DigitValue(c) ==
    CASE c = "0" -> 0 [] c = "1" -> 1 [] c = "2" -> 2 [] c = "3" -> 3
      [] c = "4" -> 4 [] c = "5" -> 5 [] c = "6" -> 6 [] c = "7" -> 7
      [] c = "8" -> 8 [] c = "9" -> 9

AllDigits(s) == \A i \in 1..Len(s) : SubSeq(s, i, i) \in DecimalDigits

\* the number a string of digits denotes ("" denotes 0)
RECURSIVE DigitsValue(_)
DigitsValue(s) ==
    IF Len(s) = 0 THEN 0
    ELSE 10 * DigitsValue(SubSeq(s, 1, Len(s) - 1))
             + DigitValue(SubSeq(s, Len(s), Len(s)))

\* a numeral without its sign
Unsigned(s) ==
    IF Len(s) > 0 /\ SubSeq(s, 1, 1) \in {"-", "+"}
    THEN SubSeq(s, 2, Len(s)) ELSE s

\* the position of the first decimal point of s from i on, Len(s) + 1
\* when there is none
RECURSIVE FirstPoint(_, _)
FirstPoint(s, i) ==
    IF i > Len(s) \/ SubSeq(s, i, i) = "." THEN i ELSE FirstPoint(s, i + 1)

\* the characters before and after the first decimal point
IntegerPart(s) ==
    LET point == FirstPoint(s, 1)
    IN  IF point = 1 THEN "" ELSE SubSeq(s, 1, point - 1)

FractionPart(s) ==
    LET point == FirstPoint(s, 1)
    IN  IF point >= Len(s) THEN "" ELSE SubSeq(s, point + 1, Len(s))

\* float(value_str) returns a number (it raises ValueError otherwise):
\* value_str is a decimal numeral, an optional sign and digits with at most
\* one decimal point.  (Exponents, inf, nan and surrounding blanks, which
\* float() also accepts, do not occur in the model, nor do more than three
\* decimals.)
FloatReads(value_str) ==
    LET unsigned == Unsigned(value_str)
        integer == IntegerPart(unsigned)
        fraction == FractionPart(unsigned)
    IN  /\ Len(unsigned) > 0
        /\ Len(integer) + Len(fraction) > 0
        /\ Len(fraction) <= 3
        /\ AllDigits(integer)
        /\ AllDigits(fraction)

\* the number float(value_str) returns, in thousandths
FloatValue(value_str) ==
    LET fraction == FractionPart(Unsigned(value_str))
        thousandths ==
            CASE Len(fraction) = 0 -> 0
              [] Len(fraction) = 1 -> 100 * DigitsValue(fraction)
              [] Len(fraction) = 2 -> 10 * DigitsValue(fraction)
              [] Len(fraction) = 3 -> DigitsValue(fraction)
        magnitude ==
            1000 * DigitsValue(IntegerPart(Unsigned(value_str))) + thousandths
    IN  IF Len(value_str) > 0 /\ SubSeq(value_str, 1, 1) = "-"
        THEN 0 - magnitude ELSE magnitude

\* float() on the value strings the raw files of the model hold most,
\* read once
ValueStrings ==
    {"12.0", "14.0", "13.5", "0.045", "-999999", "-999999.0", "", "abc"}

FloatTable ==
    [s \in ValueStrings |->
        [ok |-> FloatReads(s),
         value |-> IF FloatReads(s) THEN FloatValue(s) ELSE 0]]

\* float(value_str) returns a number
FloatOk(value_str) ==
    IF value_str \in ValueStrings THEN FloatTable[value_str].ok
    ELSE FloatReads(value_str)

\* float(value_str), in thousandths
Float(value_str) ==
    IF value_str \in ValueStrings THEN FloatTable[value_str].value
    ELSE FloatValue(value_str)

\* repr(x) of a float, as str() and json.dump write it: the shortest
\* numeral that float() reads back as x, always with a decimal point
Repr(x) ==
    LET magnitude == IF x < 0 THEN 0 - x ELSE x
        r == magnitude % 1000
        fraction ==
            IF r % 100 = 0 THEN ToString(r \div 100)
            ELSE IF r % 10 = 0
                 THEN (IF r < 100 THEN "0" ELSE "") \o ToString(r \div 10)
            ELSE (IF r < 10 THEN "00" ELSE IF r < 100 THEN "0" ELSE "")
                     \o ToString(r)
    IN  (IF x < 0 THEN "-" ELSE "") \o ToString(magnitude \div 1000)
            \o "." \o fraction

\* the missing-data sentinel -999999, in thousandths
Sentinel == -999999 * 1000

(* ------------------------- malformed samples -------------------------- *)
\* A raw sample is [dateTime, value, qualifiers].  A key that is absent
\* from the JSON object, a JSON null and a qualifier entry that is not an
\* object with a qualifierCode are written as follows.
NoValue == "<no value key>"
Null == "<null>"
NoCode == "<object without qualifierCode>"
NotAnObject == "<not an object>"

\* value['dateTime'] raises KeyError: the key is absent (written 0)
HasDateTime(value) == value.dateTime /= 0

\* "for qualifier in qualifiers: qualifier['qualifierCode']": the exception
\* the first malformed entry raises, "none" when every entry has a code
RECURSIVE QualifierError(_)
QualifierError(qualifiers) ==
    IF qualifiers = <<>> THEN "none"
    ELSE IF Head(qualifiers) = NoCode THEN "KeyError"
    ELSE IF Head(qualifiers) = NotAnObject THEN "TypeError"
    ELSE QualifierError(Tail(qualifiers))

\* the loop body of _convert_to_daily_data on one sample: "keep" it, "skip"
\* it (continue), or raise "TypeError", which except (KeyError, ValueError)
\* does not catch
U_SampleOutcome(value) ==
    IF ~HasDateTime(value) \/ value.value = NoValue THEN "skip"
    ELSE IF value.value = "-999999" \/ value.value = "" THEN "skip"
    ELSE IF value.value = Null THEN "TypeError"
    ELSE IF ~FloatOk(value.value) THEN "skip"
    ELSE IF QualifierError(value.qualifiers) = "KeyError" THEN "skip"
    ELSE IF QualifierError(value.qualifiers) = "TypeError" THEN "TypeError"
    ELSE "keep"

\* the loop body of _extract_usgs_parameter on one sample: the qualifiers
\* are read before the value is converted
W_SampleOutcome(value) ==
    IF ~HasDateTime(value) \/ value.value = NoValue THEN "skip"
    ELSE IF QualifierError(value.qualifiers) = "KeyError" THEN "skip"
    ELSE IF QualifierError(value.qualifiers) = "TypeError" THEN "TypeError"
    ELSE IF value.value = "-999999" THEN "keep"
    ELSE IF value.value = Null THEN "TypeError"
    ELSE IF ~FloatOk(value.value) THEN "skip"
    ELSE "keep"

(* --------------------------- quality tiers ---------------------------- *)
QualifierCodes == {"P", "e", "A", "R", "S", "X"}

\* "for qualifier in qualifiers" of _convert_to_daily_data: each recognised
\* code overwrites the tier chosen so far
RECURSIVE U_QualityLoop(_, _)
U_QualityLoop(qualifiers, quality) ==
    IF qualifiers = <<>> THEN quality
    ELSE U_QualityLoop(Tail(qualifiers),
            IF Head(qualifiers) \in {"P", "e", "A"} THEN "fair"
            ELSE IF Head(qualifiers) \in {"R", "S"} THEN "poor"
            ELSE quality)

U_SampleQuality(qualifiers) == U_QualityLoop(qualifiers, "good")

\* the same loop in _extract_usgs_parameter
RECURSIVE W_QualityLoop(_, _)
W_QualityLoop(qualifiers, quality) ==
    IF qualifiers = <<>> THEN quality
    ELSE W_QualityLoop(Tail(qualifiers),
            IF Head(qualifiers) \in {"P", "e", "A"} THEN "fair"
            ELSE IF Head(qualifiers) \in {"R", "S"} THEN "poor"
            ELSE quality)

W_SampleQuality(qualifiers) == W_QualityLoop(qualifiers, "good")

(* ------------------- parameter and station tables --------------------- *)
Parameters == {"flow", "temperature", "stage", "conductivity",
               "dissolved_oxygen", "turbidity", "ph"}

\* parameter_map.get(variable_code, 'unknown')
parameter_map(variable_code) ==
    CASE variable_code = "00060" -> "flow"
      [] variable_code = "00010" -> "temperature"
      [] variable_code = "00065" -> "stage"
      [] variable_code = "00095" -> "conductivity"
      [] variable_code = "00094" -> "dissolved_oxygen"
      [] variable_code = "00076" -> "turbidity"
      [] variable_code = "00400" -> "ph"
      [] OTHER                   -> "unknown"

\* station_map.get(site_code): None is modelled as 0 (both are falsy)
station_map(site_code) ==
    CASE site_code = "15276000" -> 410
      [] site_code = "15290000" -> 411
      [] site_code = "15284000" -> 412
      [] site_code = "15292000" -> 413
      [] OTHER                  -> 0

\* the value field of a daily record, per parameter
OutputKey(parameter) ==
    CASE parameter = "flow"             -> "flow_cfs"
      [] parameter = "temperature"      -> "temperature_c"
      [] parameter = "stage"            -> "stage_ft"
      [] parameter = "conductivity"     -> "conductivity_us_cm"
      [] parameter = "dissolved_oxygen" -> "dissolved_oxygen_mg_l"
      [] parameter = "turbidity"        -> "turbidity_ntu"
      [] parameter = "ph"               -> "ph"

\* the ndigits of round(avg_value, ndigits), per parameter
OutputDigits(parameter) == IF parameter = "conductivity" THEN 0 ELSE 2

UnitOf(parameter) ==
    CASE parameter = "flow"             -> "ft3/s"
      [] parameter = "temperature"      -> "degC"
      [] parameter = "stage"            -> "ft"
      [] parameter = "conductivity"     -> "uS/cm"
      [] parameter = "dissolved_oxygen" -> "mg/L"
      [] parameter = "turbidity"        -> "NTU"
      [] parameter = "ph"               -> "pH units"

\* the category directory a parameter's records are written to
OutputDir(parameter) ==
    CASE parameter = "flow"        -> "05-flow"
      [] parameter = "temperature" -> "03-temperature"
      [] parameter = "stage"       -> "06-stage"
      [] OTHER                     -> "04-quality"

(* --------------------------- dates and names -------------------------- *)
DateOf(date_time) == date_time \div 100
YearOf(date) == date \div 10000

\* str(n) for the integers that occur in file names
Str(n) ==
    CASE n = 410  -> "410"
      [] n = 411  -> "411"
      [] n = 412  -> "412"
      [] n = 413  -> "413"
      [] n = 2023 -> "2023"
      [] n = 2024 -> "2024"
      [] n = 2025 -> "2025"

\* int(token) returns an integer (it raises ValueError otherwise)
IntOk(token) ==
    token \in {"410", "0410", "411", "412", "413", "2023", "2024", "2025"}

\* int(token)
IntOf(token) ==
    CASE token = "410"  -> 410
      [] token = "0410" -> 410
      [] token = "411"  -> 411
      [] token = "412"  -> 412
      [] token = "413"  -> 413
      [] token = "2023" -> 2023
      [] token = "2024" -> 2024
      [] token = "2025" -> 2025

Path(dir, parts) == [dir |-> dir, parts |-> parts, ext |-> "json"]

\* data/<dir>/location-<location_id>-<year>.json
SeriesPath(dir, location_id, year) ==
    Path(dir, <<"location", Str(location_id), Str(year)>>)

\* data/02-watersheds/location-<location_id>.json
WatershedPath(location_id) ==
    Path("02-watersheds", <<"location", Str(location_id)>>)

\* variant: a record written over an existing record keeps the old daily
\* entries in front of the new ones
WriteFile_merging(files, path, content) ==
    [p \in (DOMAIN files) \cup {path} |->
        IF p /= path THEN files[p]
        ELSE IF path \in DOMAIN files /\ "data" \in DOMAIN content
                /\ "data" \in DOMAIN files[path]
             THEN [content EXCEPT !.data = files[path].data \o @]
             ELSE content]

\* open(path, 'w'); json.dump(content): the file holds content, nothing else
WriteFile(files, path, content) ==
    [p \in (DOMAIN files) \cup {path} |-> IF p = path THEN content ELSE files[p]]

(* ----------------------- grouping and sorting ------------------------- *)
\* the keys of a dict filled in one pass over `keys`, in insertion order
RECURSIVE KeysInOrder(_)
KeysInOrder(keys) ==
    IF keys = <<>> THEN <<>>
    ELSE <<Head(keys)>> \o
         KeysInOrder(SelectSeq(Tail(keys), LAMBDA k : k /= Head(keys)))

\* daily_data[date].append(...): the dates of `points`, in insertion order
DatesInOrder(points) == KeysInOrder([i \in 1..Len(points) |-> points[i].date])

\* yearly_data[year].append(...): the years of `points`, in insertion order
YearsInOrder(points) ==
    KeysInOrder([i \in 1..Len(points) |-> YearOf(points[i].date)])

\* sorted(daily_averages, key=lambda x: x['date']): stable insertion sort
RECURSIVE InsertByDate(_, _)
InsertByDate(sorted, day) ==
    IF sorted = <<>> THEN <<day>>
    ELSE IF Head(sorted).date <= day.date
         THEN <<Head(sorted)>> \o InsertByDate(Tail(sorted), day)
         ELSE <<day>> \o sorted

RECURSIVE SortedByDate(_)
SortedByDate(days) ==
    IF days = <<>> THEN <<>>
    ELSE LET front == SubSeq(days, 1, Len(days) - 1)
         IN  InsertByDate(SortedByDate(front), days[Len(days)])


\* Python's None and a present number, as values of one kind
None == <<>>
Some(v) == <<v>>

\* a canonical record as json.dump writes it (last_updated left out)
Record(location_id, location_name, year, parameter, data, stats, source) ==
    [location_id |-> location_id, location_name |-> location_name,
     year |-> year, parameter |-> parameter, unit |-> UnitOf(parameter),
     data |-> data, statistics |-> stats, source |-> source]

\* {'mean': round(sum/len, 2), 'min': round(min, 2), 'max': round(max, 2),
\*  'count': len(values)}
Statistics(values) ==
    [mean |-> RoundMean(values, 2),
     min |-> RoundFloat(MinSeq(values), 2),
     max |-> RoundFloat(MaxSeq(values), 2),
     count |-> Len(values)]

(* ---------------- USGSRawDataProcessor (U_ prefix) -------------------- *)
\* the first loop of _convert_to_daily_data: the samples it keeps
RECURSIVE U_DayPoints(_)
U_DayPoints(values) ==
    IF values = <<>> THEN <<>>
    ELSE LET value == Head(values)
             value_str == value.value
             rest == U_DayPoints(Tail(values))
         IN  IF U_SampleOutcome(value) /= "keep" THEN rest
             ELSE <<[date |-> DateOf(value.dateTime),
                     value |-> Float(value_str),
                     quality |-> U_SampleQuality(value.qualifiers)]>> \o rest

\* "Determine overall quality" of one day
U_DayQuality(qualities) ==
    IF \A i \in 1..Len(qualities) : qualities[i] = "good" THEN "good"
    ELSE IF \E i \in 1..Len(qualities) : qualities[i] = "poor" THEN "poor"
    ELSE "fair"

\* variant: the day's sum is divided by one more than the number of samples
U_DayAverage_diluted(points, date, parameter) ==
    LET day_values == SelectSeq(points, LAMBDA p : p.date = date)
        values_list == [i \in 1..Len(day_values) |-> day_values[i].value]
        qualities == [i \in 1..Len(day_values) |-> day_values[i].quality]
    IN  [date |-> date, key |-> OutputKey(parameter),
         value |-> RoundMean(values_list \o <<0>>, OutputDigits(parameter)),
         quality |-> U_DayQuality(qualities)]

U_DayAverage(points, date, parameter) ==
    LET day_values == SelectSeq(points, LAMBDA p : p.date = date)
        values_list == [i \in 1..Len(day_values) |-> day_values[i].value]
        qualities == [i \in 1..Len(day_values) |-> day_values[i].quality]
    IN  [date |-> date, key |-> OutputKey(parameter),
         value |-> RoundMean(values_list, OutputDigits(parameter)),
         quality |-> U_DayQuality(qualities)]

\* the first loop of _convert_to_daily_data raises TypeError
U_ConvertRaises(values) ==
    \E i \in 1..Len(values) : U_SampleOutcome(values[i]) = "TypeError"

U_convert_to_daily_data(values, parameter) ==
    LET points == U_DayPoints(values)
        dates == DatesInOrder(points)
    IN  IF parameter \notin Parameters THEN <<>>
        ELSE SortedByDate([i \in 1..Len(dates) |->
                              U_DayAverage(points, dates[i], parameter)])

U_save_processed_data(files, location_id, location_name, parameter, year, year_data) ==
    LET values == [i \in 1..Len(year_data) |-> year_data[i].value]
    IN  IF parameter \notin Parameters \/ values = <<>> THEN files
        ELSE WriteFile(files,
                 SeriesPath(OutputDir(parameter), location_id, year),
                 Record(location_id, location_name, year, parameter,
                        year_data, Statistics(values),
                        "USGS Stream Gauge Network"))

\* "for year, year_data in yearly_data.items(): self._save_processed_data"
RECURSIVE U_SaveYears(_, _, _, _, _, _)
U_SaveYears(files, location_id, location_name, parameter, daily_data, years) ==
    IF years = <<>> THEN files
    ELSE LET year == Head(years)
             year_data == SelectSeq(daily_data,
                                    LAMBDA day : YearOf(day.date) = year)
         IN  U_SaveYears(
                 U_save_processed_data(files, location_id, location_name,
                                       parameter, year, year_data),
                 location_id, location_name, parameter, daily_data,
                 Tail(years))

U_process_time_series(files, series) ==
    LET parameter == parameter_map(series.variable_code)
        location_id == station_map(series.site_code)
        daily_data == U_convert_to_daily_data(series.values, parameter)
    IN  IF parameter = "unknown" THEN files
        ELSE IF location_id = 0 THEN files
        ELSE IF U_ConvertRaises(series.values) THEN files
        ELSE IF daily_data = <<>> THEN files
        ELSE U_SaveYears(files, location_id, series.site_name, parameter,
                         daily_data, YearsInOrder(daily_data))

\* variant: the loop over the series of a raw file ends at the first
\* series whose parameter or station code does not resolve
RECURSIVE U_process_raw_usgs_file_aborting(_, _)
U_process_raw_usgs_file_aborting(files, time_series) ==
    IF time_series = <<>> THEN files
    ELSE IF parameter_map(Head(time_series).variable_code) = "unknown"
            \/ station_map(Head(time_series).site_code) = 0
         THEN files
         ELSE U_process_raw_usgs_file_aborting(
                  U_process_time_series(files, Head(time_series)),
                  Tail(time_series))

\* "for series in time_series: self._process_time_series(series)"
RECURSIVE U_process_raw_usgs_file(_, _)
U_process_raw_usgs_file(files, time_series) ==
    IF time_series = <<>> THEN files
    ELSE U_process_raw_usgs_file(
             U_process_time_series(files, Head(time_series)),
             Tail(time_series))

(* ------------------ WaterDataProcessor (W_ prefix) -------------------- *)
\* the loop of _extract_usgs_parameter over one series' values
RECURSIVE W_DataPoints(_)
W_DataPoints(values) ==
    IF values = <<>> THEN <<>>
    ELSE LET value == Head(values)
             value_str == value.value
             rest == W_DataPoints(Tail(values))
         IN  IF W_SampleOutcome(value) /= "keep" THEN rest
             ELSE <<[date |-> DateOf(value.dateTime),
                     value |-> IF value_str /= "-999999"
                               THEN Some(Float(value_str)) ELSE None,
                     quality |-> W_SampleQuality(value.qualifiers)]>> \o rest

\* the data points of the first series carrying parameter_code, else []
RECURSIVE W_extract_usgs_parameter(_, _)
W_extract_usgs_parameter(time_series, parameter_code) ==
    IF time_series = <<>> THEN <<>>
    ELSE IF Head(time_series).variable_code = parameter_code
         THEN W_DataPoints(Head(time_series).values)
         ELSE W_extract_usgs_parameter(Tail(time_series), parameter_code)

\* _extract_usgs_parameter raises TypeError: a sample of the first series
\* carrying parameter_code does
RECURSIVE W_ExtractRaises(_, _)
W_ExtractRaises(time_series, parameter_code) ==
    IF time_series = <<>> THEN FALSE
    ELSE IF Head(time_series).variable_code = parameter_code
         THEN \E i \in 1..Len(Head(time_series).values) :
                  W_SampleOutcome(Head(time_series).values[i]) = "TypeError"
         ELSE W_ExtractRaises(Tail(time_series), parameter_code)

\* 'good' if all(p['quality'] == 'good' for p in day_points) else 'fair'
W_DayQuality(qualities) ==
    IF \A i \in 1..Len(qualities) : qualities[i] = "good" THEN "good"
    ELSE "fair"

W_DayAverage(hourly_data, date, output_key) ==
    LET day_points == SelectSeq(hourly_data, LAMBDA p : p.date = date)
        present == SelectSeq(day_points, LAMBDA p : p.value /= None)
        values == [i \in 1..Len(present) |-> present[i].value[1]]
        qualities == [i \in 1..Len(day_points) |-> day_points[i].quality]
    IN  [date |-> date, key |-> output_key,
         value |-> RoundMean(values, 2),
         quality |-> W_DayQuality(qualities)]

W_convert_to_daily_data(hourly_data, output_key) ==
    LET dates == SelectSeq(DatesInOrder(hourly_data),
                     LAMBDA d : \E i \in 1..Len(hourly_data) :
                         hourly_data[i].date = d /\ hourly_data[i].value /= None)
    IN  SortedByDate([i \in 1..Len(dates) |->
                         W_DayAverage(hourly_data, dates[i], output_key)])

\* the body of "for year, year_data in yearly_data.items()"
W_SaveYear(files, location_id, location_name, parameter, year, year_data) ==
    LET values == [i \in 1..Len(year_data) |-> year_data[i].value[1]]
        daily_data == W_convert_to_daily_data(year_data, OutputKey(parameter))
    IN  IF values = <<>> \/ parameter \notin {"flow", "temperature", "stage"}
        THEN files
        ELSE WriteFile(files,
                 SeriesPath(OutputDir(parameter), location_id, year),
                 Record(location_id, location_name, year, parameter,
                        daily_data, Statistics(values),
                        "USGS Stream Gauge Network"))

RECURSIVE W_SaveYears(_, _, _, _, _, _)
W_SaveYears(files, location_id, location_name, parameter, points, years) ==
    IF years = <<>> THEN files
    ELSE LET year == Head(years)
             year_data == SelectSeq(points,
                                    LAMBDA p : YearOf(p.date) = year)
         IN  W_SaveYears(
                 W_SaveYear(files, location_id, location_name, parameter,
                            year, year_data),
                 location_id, location_name, parameter, points, Tail(years))

W_save_usgs_data(files, location_id, location_name, parameter, data_points) ==
    LET points == SelectSeq(data_points, LAMBDA p : p.value /= None)
    IN  IF data_points = <<>> THEN files
        ELSE W_SaveYears(files, location_id, location_name, parameter,
                         points, YearsInOrder(points))

\* the try block of process_usgs_stream_gauge_data, given the parsed
\* response's timeSeries
W_process_usgs_stream_gauge_data(files, location_id, location_name, time_series) ==
    LET flow_data == W_extract_usgs_parameter(time_series, "00060")
        temp_data == W_extract_usgs_parameter(time_series, "00010")
        stage_data == W_extract_usgs_parameter(time_series, "00065")
        f1 == W_save_usgs_data(files, location_id, location_name, "flow",
                               flow_data)
        f2 == W_save_usgs_data(f1, location_id, location_name, "temperature",
                               temp_data)
    IN  IF \E code \in {"00060", "00010", "00065"} :
               W_ExtractRaises(time_series, code)
        THEN files
        ELSE W_save_usgs_data(f2, location_id, location_name, "stage",
                              stage_data)

(* ------------- research-paper values (WaterDataProcessor) ------------- *)
IsLeapYear(y) == (y % 4 = 0 /\ y % 100 /= 0) \/ y % 400 = 0

DaysInMonth(y, m) ==
    IF m = 2 THEN (IF IsLeapYear(y) THEN 29 ELSE 28)
    ELSE IF m \in {4, 6, 9, 11} THEN 30 ELSE 31

\* datetime(y, m, d) + timedelta(days=n), as the integer YYYYMMDD
RECURSIVE DatePlusDays(_, _, _, _)
DatePlusDays(y, m, d, n) ==
    IF d + n <= DaysInMonth(y, m) THEN y * 10000 + m * 100 + d + n
    ELSE IF m = 12
         THEN DatePlusDays(y + 1, 1, 1, n - (DaysInMonth(y, m) - d + 1))
         ELSE DatePlusDays(y, m + 1, 1, n - (DaysInMonth(y, m) - d + 1))

\* "for i, value in enumerate(values)": weekly dates from 2023-06-01 (the
\* model counts i from 1)
W_ResearchSamples(parameter, values) ==
    [i \in 1..Len(values) |->
        [date |-> DatePlusDays(2023, 6, 1, (i - 1) * 7),
         key |-> IF parameter = "temperature" THEN "temperature_c"
                 ELSE parameter \o "_cfs",
         value |-> values[i],
         quality |-> "good"]]

\* (process_research_paper_data calls it for temperature and flow only)
W_save_research_data(files, location_id, location_name, parameter, values) ==
    IF values = <<>> THEN files
    ELSE IF parameter \notin {"temperature", "flow"} THEN files
    ELSE WriteFile(files,
             SeriesPath(OutputDir(parameter), location_id, 2023),
             Record(location_id, location_name, 2023, parameter,
                    W_ResearchSamples(parameter, values), Statistics(values),
                    "Research Paper Extraction"))

\* "for location in locations" of process_research_paper_data, given what
\* the three _extract_..._from_text helpers found in the text
RECURSIVE W_process_research_paper_data(_, _, _, _)
W_process_research_paper_data(files, temp_data, flow_data, locations) ==
    IF locations = <<>> THEN files
    ELSE LET location == Head(locations)
             f1 == W_save_research_data(files, location.id, location.name,
                                        "temperature", temp_data)
             f2 == W_save_research_data(f1, location.id, location.name,
                                        "flow", flow_data)
         IN  W_process_research_paper_data(f2, temp_data, flow_data,
                                           Tail(locations))

(* ------------------------- manifest indexers -------------------------- *)
DataDirs == <<"02-watersheds", "03-temperature", "04-quality", "05-flow",
              "06-stage">>

\* [f for f in os.listdir(data_path) if f.endswith('.json')]
ListDir(files, data_dir) ==
    {p \in DOMAIN files : p.dir = data_dir /\ p.ext = "json"}

\* "location-" in filename: some part before the last ends in "location"
HasLocationDash(parts) ==
    \E i \in 1..(Len(parts) - 1) : parts[i] \in {"location", "xlocation"}

\* the accumulators of update_manifest before its loops
EmptyIndex ==
    [total_files |-> 0, locations_covered |-> {}, years_covered |-> {},
     organized |-> [k \in {} |-> None]]

NoYears == [k \in {} |-> None]

\* the entry update_manifest creates for a location it has not seen yet
NewEntry(location_id) ==
    [watershed |-> WatershedPath(location_id), temperature |-> NoYears,
     flow |-> NoYears, quality |-> NoYears, stage |-> NoYears]

\* d[key] = value on a dict d
DictPut(d, key, value) ==
    [k \in (DOMAIN d) \cup {key} |-> IF k = key THEN value ELSE d[k]]

CategoryOf(data_dir) ==
    CASE data_dir = "03-temperature" -> "temperature"
      [] data_dir = "05-flow"        -> "flow"
      [] data_dir = "04-quality"     -> "quality"
      [] data_dir = "06-stage"       -> "stage"
      [] OTHER                       -> "none"

\* variant: the location's entry is built, the file's path is not added
AddToOrganized_unkeyed(organized, data_dir, location_id, year) ==
    IF Str(location_id) \in DOMAIN organized THEN organized
    ELSE DictPut(organized, Str(location_id), NewEntry(location_id))

\* "Build organized structure" and "Add file to organized structure"
AddToOrganized(organized, data_dir, location_id, year) ==
    LET key == Str(location_id)
        o1 == IF key \in DOMAIN organized THEN organized
              ELSE DictPut(organized, key, NewEntry(location_id))
        cat == CategoryOf(data_dir)
    IN  IF cat = "none" THEN o1
        ELSE [o1 EXCEPT ![key][cat] =
                 DictPut(@, Str(year), SeriesPath(data_dir, location_id, year))]

\* the body of "for filename in files" in USGSRawDataProcessor.update_manifest
U_IndexFile(acc, data_dir, parts) ==
    IF ~HasLocationDash(parts) THEN acc
    ELSE IF Len(parts) < 3 THEN acc
    ELSE IF ~IntOk(parts[2]) THEN acc
    ELSE LET location_id == IntOf(parts[2])
             a1 == [acc EXCEPT !.locations_covered = @ \cup {location_id}]
         IN  IF ~IntOk(parts[3]) THEN a1
             ELSE LET year == IntOf(parts[3])
                  IN  [a1 EXCEPT
                          !.years_covered = @ \cup {year},
                          !.organized = AddToOrganized(@, data_dir,
                                                       location_id, year)]

\* the body of "for filename in files" in WaterDataProcessor.update_manifest
W_IndexFile(acc, data_dir, parts) ==
    IF ~HasLocationDash(parts) THEN acc
    ELSE IF Len(parts) < 2 THEN acc
    ELSE IF ~IntOk(parts[2]) THEN acc
    ELSE LET location_id == IntOf(parts[2])
             a1 == [acc EXCEPT !.locations_covered = @ \cup {location_id}]
         IN  IF Len(parts) < 3 THEN a1
             ELSE IF ~IntOk(parts[3]) THEN a1
             ELSE LET year == IntOf(parts[3])
                  IN  [a1 EXCEPT
                          !.years_covered = @ \cup {year},
                          !.organized = AddToOrganized(@, data_dir,
                                                       location_id, year)]

\* the body of "for filename in files" in update_manifest_with_sample_data
S_IndexFile(acc, data_dir, parts) ==
    IF ~HasLocationDash(parts) THEN acc
    ELSE IF Len(parts) < 2 THEN acc
    ELSE IF ~IntOk(parts[2]) THEN acc
    ELSE LET location_id == IntOf(parts[2])
             a1 == [acc EXCEPT !.locations_covered = @ \cup {location_id}]
         IN  IF Len(parts) < 3 THEN a1
             ELSE IF ~IntOk(parts[3]) THEN a1
             ELSE [a1 EXCEPT !.years_covered = @ \cup {IntOf(parts[3])}]

\* the loop body of the indexer `who` runs
IndexFile(who, acc, data_dir, parts) ==
    CASE who = "usgs"   -> U_IndexFile(acc, data_dir, parts)
      [] who = "water"  -> W_IndexFile(acc, data_dir, parts)
      [] who = "sample" -> S_IndexFile(acc, data_dir, parts)

\* "for filename in files" over one directory listing
RECURSIVE IndexFiles(_, _, _, _)
IndexFiles(who, acc, data_dir, names) ==
    IF names = {} THEN acc
    ELSE LET p == CHOOSE q \in names : TRUE
         IN  IndexFiles(who, IndexFile(who, acc, data_dir, p.parts), data_dir,
                        names \ {p})

\* "for data_dir in [...]": count the listing, then index its files
RECURSIVE IndexDirs(_, _, _, _)
IndexDirs(who, acc, files, dirs) ==
    IF dirs = <<>> THEN acc
    ELSE LET names == ListDir(files, Head(dirs))
             a1 == [acc EXCEPT !.total_files = @ + Cardinality(names)]
         IN  IndexDirs(who, IndexFiles(who, a1, Head(dirs), names), files,
                       Tail(dirs))

\* sorted(list(years_covered))
RECURSIVE SortedList(_)
SortedList(S) ==
    IF S = {} THEN <<>>
    ELSE LET m == CHOOSE x \in S : \A y \in S : x <= y
         IN  <<m>> \o SortedList(S \ {m})

\* variant: the statistics object is built anew from the three counts
StoreIndex_fresh(old, acc, organized) ==
    [old EXCEPT !.statistics =
                    [total_files |-> acc.total_files,
                     locations_covered |-> Cardinality(acc.locations_covered),
                     years_covered |-> SortedList(acc.years_covered)],
                !.organized = organized]

\* "Update manifest statistics" and manifest["organized"] = organized
StoreIndex(old, acc, organized) ==
    [old EXCEPT !.statistics.total_files = acc.total_files,
                !.statistics.locations_covered =
                    Cardinality(acc.locations_covered),
                !.statistics.years_covered = SortedList(acc.years_covered),
                !.organized = organized]

\* variant: total_files is added to the count already in the manifest
U_update_manifest_accumulating(old, files) ==
    LET acc == IndexDirs("usgs", EmptyIndex, files, DataDirs)
    IN  StoreIndex(old,
                   [acc EXCEPT !.total_files =
                       @ + old.statistics.total_files],
                   acc.organized)

\* variant: the organized index of the loaded manifest is patched, not
\* rebuilt
U_update_manifest_patching(old, files) ==
    LET acc == IndexDirs("usgs",
                         [EmptyIndex EXCEPT !.organized = old.organized],
                         files, DataDirs)
    IN  StoreIndex(old, acc, acc.organized)

U_update_manifest(old, files) ==
    LET acc == IndexDirs("usgs", EmptyIndex, files, DataDirs)
    IN  StoreIndex(old, acc, acc.organized)

W_update_manifest(old, files) ==
    LET acc == IndexDirs("water", EmptyIndex, files, DataDirs)
    IN  StoreIndex(old, acc, acc.organized)

\* "Create organized structure" of update_manifest_with_sample_data: every
\* covered location crossed with every covered year
S_Organized(locations_covered, years_covered) ==
    [key \in {Str(l) : l \in locations_covered} |->
        LET location_id == CHOOSE l \in locations_covered : Str(l) = key
            paths(data_dir) ==
                [y \in {Str(year) : year \in years_covered} |->
                    Path(data_dir, <<"location", key, y>>)]
        IN  [watershed |-> WatershedPath(location_id),
             temperature |-> paths("03-temperature"),
             flow |-> paths("05-flow"),
             quality |-> paths("04-quality")]]

update_manifest_with_sample_data(old, files) ==
    LET acc == IndexDirs("sample", EmptyIndex, files,
                         SubSeq(DataDirs, 1, 4))
    IN  StoreIndex(old, acc,
                   S_Organized(acc.locations_covered, acc.years_covered))

(* ------------------- WaterDataValidator (V_ prefix) ------------------- *)
\* A JSON file is the record of its keys.  A file that is not JSON is
\* [json_error |-> TRUE]; a JSON document that is not an object is
\* [not_an_object |-> "list"] or [not_an_object |-> "number"].  Records
\* leave last_updated out: a file without it carries no_last_updated.  A
\* key whose value is a string where a number is expected is listed in the
\* object's text field.  A daily entry carries one value, under `key`.

\* self.validation_results after __init__ (validation_date left out)
V_NewResults ==
    [files_checked |-> 0, files_valid |-> 0, files_invalid |-> 0,
     errors |-> <<>>, warnings |-> <<>>]

V_AddError(vr, file_path, type) ==
    [vr EXCEPT !.errors = Append(@, [file |-> file_path, type |-> type])]

\* index is the position of the offending entry of data (0 for the record)
V_AddWarning(vr, file_path, type, index) ==
    [vr EXCEPT !.warnings =
        Append(@, [file |-> file_path, type |-> type, index |-> index])]

\* "field in data"
V_HasField(data, field) ==
    IF field = "last_updated" THEN "no_last_updated" \notin DOMAIN data
    ELSE field \in DOMAIN data

\* isinstance(obj[field], (int, float)), and isinstance(obj[field], int)
\* for location_id and year
V_IsNumber(obj, field) == ~("text" \in DOMAIN obj /\ field \in obj.text)

\* 'watershed' in file_path
V_IsWatershedPath(file_path) == file_path.dir = "02-watersheds"

V_RequiredFields(file_path) ==
    IF V_IsWatershedPath(file_path)
    THEN <<"location_id", "location_name", "data_sources", "last_updated">>
    ELSE <<"location_id", "location_name", "year", "parameter", "source",
           "last_updated">>

\* the first of `fields` that data lacks, "" when it has them all
RECURSIVE V_FirstMissing(_, _)
V_FirstMissing(data, fields) ==
    IF fields = <<>> THEN ""
    ELSE IF ~V_HasField(data, Head(fields)) THEN Head(fields)
    ELSE V_FirstMissing(data, Tail(fields))

\* Each validate_... method is modelled by the validation results it leaves
\* and its outcome: it returns "true" or "false", or it "raises".
V_Out(vr, outcome) == [vr |-> vr, outcome |-> outcome]

V_validate_basic_structure(vr, data, file_path) ==
    IF "not_an_object" \in DOMAIN data
    THEN IF data.not_an_object = "list"
         THEN V_Out(V_AddError(vr, file_path, "missing_field"), "false")
         ELSE V_Out(vr, "raises")
    ELSE IF V_FirstMissing(data, V_RequiredFields(file_path)) /= ""
    THEN V_Out(V_AddError(vr, file_path, "missing_field"), "false")
    ELSE IF ~V_IsNumber(data, "location_id")
    THEN V_Out(V_AddError(vr, file_path, "type_error"), "false")
    ELSE IF ~V_IsWatershedPath(file_path) /\ ~V_IsNumber(data, "year")
    THEN V_Out(V_AddError(vr, file_path, "type_error"), "false")
    ELSE V_Out(vr, "true")

\* "Validate statistics" of validate_temperature_data; comparing a
\* statistic that is a string with the numbers next to it raises TypeError
V_ValidateStatistics(vr, data, file_path) ==
    IF "statistics" \notin DOMAIN data THEN V_Out(vr, "true")
    ELSE IF ~({"mean", "min", "max"} \subseteq DOMAIN data.statistics)
    THEN V_Out(vr, "true")
    ELSE IF \E k \in {"mean", "min", "max"} : ~V_IsNumber(data.statistics, k)
    THEN V_Out(vr, "raises")
    ELSE IF ~(data.statistics.min <= data.statistics.mean
              /\ data.statistics.mean <= data.statistics.max)
    THEN V_Out(V_AddWarning(vr, file_path, "statistics_warning", 0), "true")
    ELSE V_Out(vr, "true")

\* "for i, day in enumerate(data['data'])" of validate_temperature_data and
\* validate_flow_data, from entry i on: the value under `key` must be a
\* number, and one outside [low, high] is warned about
RECURSIVE V_ValueLoop(_, _, _, _, _, _, _)
V_ValueLoop(vr, days, i, file_path, key, low, high) ==
    IF i > Len(days) THEN V_Out(vr, "true")
    ELSE IF days[i].key /= key
    THEN V_Out(V_AddError(vr, file_path, "missing_field"), "false")
    ELSE IF ~V_IsNumber(days[i], "value")
    THEN V_Out(V_AddError(vr, file_path, "invalid_value"), "false")
    ELSE V_ValueLoop(IF days[i].value < low \/ days[i].value > high
                     THEN V_AddWarning(vr, file_path, "unusual_value", i)
                     ELSE vr,
                     days, i + 1, file_path, key, low, high)

V_validate_temperature_data(vr, data, file_path) ==
    IF "data" \notin DOMAIN data
    THEN V_Out(V_AddError(vr, file_path, "missing_data"), "false")
    ELSE LET loop == V_ValueLoop(vr, data.data, 1, file_path,
                                 "temperature_c", -5000, 25000)
         IN  IF loop.outcome /= "true" THEN loop
             ELSE V_ValidateStatistics(loop.vr, data, file_path)

V_validate_flow_data(vr, data, file_path) ==
    IF "data" \notin DOMAIN data
    THEN V_Out(V_AddError(vr, file_path, "missing_data"), "false")
    ELSE V_ValueLoop(vr, data.data, 1, file_path, "flow_cfs", 0, 50000000)

quality_params ==
    {"ph", "dissolved_oxygen_mg_l", "turbidity_ntu", "conductivity_us_cm"}

\* "for i, day in enumerate(data['data'])" of validate_quality_data
RECURSIVE V_QualityLoop(_, _, _, _)
V_QualityLoop(vr, days, i, file_path) ==
    IF i > Len(days) THEN V_Out(vr, "true")
    ELSE IF days[i].key \notin quality_params
    THEN V_Out(V_AddError(vr, file_path, "missing_field"), "false")
    ELSE IF days[i].key /= "ph"
    THEN V_QualityLoop(vr, days, i + 1, file_path)
    ELSE IF ~V_IsNumber(days[i], "value")
    THEN V_Out(V_AddError(vr, file_path, "invalid_value"), "false")
    ELSE V_QualityLoop(IF days[i].value < 4000 \/ days[i].value > 10000
                       THEN V_AddWarning(vr, file_path, "unusual_value", i)
                       ELSE vr,
                       days, i + 1, file_path)

\* variant: a pH outside [4, 10] is an error and ends the validation
RECURSIVE V_QualityLoop_strict(_, _, _, _)
V_QualityLoop_strict(vr, days, i, file_path) ==
    IF i > Len(days) THEN V_Out(vr, "true")
    ELSE IF days[i].key \notin quality_params
    THEN V_Out(V_AddError(vr, file_path, "missing_field"), "false")
    ELSE IF days[i].key /= "ph"
    THEN V_QualityLoop_strict(vr, days, i + 1, file_path)
    ELSE IF ~V_IsNumber(days[i], "value")
    THEN V_Out(V_AddError(vr, file_path, "invalid_value"), "false")
    ELSE IF days[i].value < 4000 \/ days[i].value > 10000
    THEN V_Out(V_AddError(vr, file_path, "invalid_value"), "false")
    ELSE V_QualityLoop_strict(vr, days, i + 1, file_path)

\* variant of validate_quality_data with the strict loop
V_validate_quality_data_strict(vr, data, file_path) ==
    IF "data" \notin DOMAIN data
    THEN V_Out(V_AddError(vr, file_path, "missing_data"), "false")
    ELSE V_QualityLoop_strict(vr, data.data, 1, file_path)

V_validate_quality_data(vr, data, file_path) ==
    IF "data" \notin DOMAIN data
    THEN V_Out(V_AddError(vr, file_path, "missing_data"), "false")
    ELSE V_QualityLoop(vr, data.data, 1, file_path)

V_validate_watershed_data(vr, data, file_path) ==
    IF V_FirstMissing(data, <<"drainage_area_sq_miles",
                              "primary_tributaries">>) /= ""
    THEN V_Out(V_AddError(vr, file_path, "missing_field"), "false")
    ELSE IF ~V_IsNumber(data, "drainage_area_sq_miles")
    THEN V_Out(V_AddError(vr, file_path, "type_error"), "false")
    ELSE IF data.drainage_area_sq_miles <= 0
    THEN V_Out(V_AddWarning(vr, file_path, "unusual_value", 0), "true")
    ELSE V_Out(vr, "true")

\* "Directory-specific validation" of validate_file
V_DirectoryValidation(vr, data, file_path, directory_name) ==
    CASE directory_name = "03-temperature" ->
             V_validate_temperature_data(vr, data, file_path)
      [] directory_name = "05-flow" ->
             V_validate_flow_data(vr, data, file_path)
      [] directory_name = "04-quality" ->
             V_validate_quality_data(vr, data, file_path)
      [] directory_name = "02-watersheds" ->
             V_validate_watershed_data(vr, data, file_path)
      [] OTHER -> V_Out(vr, "true")

\* how validate_file ends once a validate_... method has the outcome
V_Count(out, file_path) ==
    CASE out.outcome = "true" ->
             [out.vr EXCEPT !.files_valid = @ + 1]
      [] out.outcome = "false" ->
             [out.vr EXCEPT !.files_invalid = @ + 1]
      [] out.outcome = "raises" ->
             [V_AddError(out.vr, file_path, "unexpected_error")
                 EXCEPT !.files_invalid = @ + 1]

\* variant: a file whose validation raises is counted neither valid nor
\* invalid
V_validate_file_uncounted(vr, data, file_path, directory_name) ==
    LET checked == [vr EXCEPT !.files_checked = @ + 1]
        basic == V_validate_basic_structure(checked, data, file_path)
        out == IF basic.outcome /= "true" THEN basic
               ELSE V_DirectoryValidation(basic.vr, data, file_path,
                                          directory_name)
    IN  IF "json_error" \in DOMAIN data
        THEN [V_AddError(checked, file_path, "json_error")
                 EXCEPT !.files_invalid = @ + 1]
        ELSE IF out.outcome = "raises"
        THEN V_AddError(out.vr, file_path, "unexpected_error")
        ELSE V_Count(out, file_path)

\* validate_file(file_path, directory_name) on a file holding `data`
V_validate_file(vr, data, file_path, directory_name) ==
    LET checked == [vr EXCEPT !.files_checked = @ + 1]
        basic == V_validate_basic_structure(checked, data, file_path)
    IN  IF "json_error" \in DOMAIN data
        THEN [V_AddError(checked, file_path, "json_error")
                 EXCEPT !.files_invalid = @ + 1]
        ELSE IF basic.outcome /= "true" THEN V_Count(basic, file_path)
        ELSE V_Count(V_DirectoryValidation(basic.vr, data, file_path,
                                           directory_name),
                     file_path)

(* ======================= state and specifications ===================== *)
EmptyFs == [p \in {} |-> None]

\* manifest.json as the repository ships it, before any data is indexed
BaseManifest ==
    [version |-> "1.0.0", dataset_name |-> "afca-watershed-dataset",
     statistics |-> [total_files |-> 0, locations_covered |-> 0,
                     years_covered |-> <<>>],
     organized |-> EmptyFs]

(* ---- SpecQual: the per-sample quality classifier on every code list --- *)
InitQual ==
    /\ input \in SeqsUpTo(QualifierCodes, MaxQualifiers)
    /\ result = "none"
    /\ pc = "start"
    /\ fs = EmptyFs /\ manifest = BaseManifest /\ ops = 0

ClassifyUSGS ==
    /\ pc = "start"
    /\ result' = U_SampleQuality(input)
    /\ pc' = "classified_usgs"
    /\ UNCHANGED <<fs, manifest, input, ops>>

ClassifyWater ==
    /\ pc = "start"
    /\ result' = W_SampleQuality(input)
    /\ pc' = "classified_water"
    /\ UNCHANGED <<fs, manifest, input, ops>>

NextQual == ClassifyUSGS \/ ClassifyWater

SpecQual == InitQual /\ [][NextQual]_vars

(* ---- SpecAgg: one series through each aggregating handler ------------- *)
AggDateTimes == {2023060100, 2023060200, 2024060100}
AggQualifiers == {<<>>, <<"P">>, <<"R">>}

\* raw samples: every value string on every date; the qualifier lists vary
\* on the samples whose value parses
AggSamples ==
    {[dateTime |-> dt, value |-> v, qualifiers |-> q] :
        dt \in AggDateTimes,
        v \in {"-999999.0", "12.0", "13.5"},
        q \in AggQualifiers}
    \cup
    {[dateTime |-> dt, value |-> v, qualifiers |-> <<>>] :
        dt \in AggDateTimes, v \in {"", "-999999", "abc"}}

AggSeries ==
    {[site_code |-> "15276000", site_name |-> "Kenai River",
      variable_code |-> code, values |-> vs] :
        code \in {"00010", "00095"},
        vs \in SeqsUpTo(AggSamples, MaxSamples)}

InitAgg ==
    /\ input \in AggSeries
    /\ fs = EmptyFs
    /\ manifest = BaseManifest
    /\ result = "none"
    /\ pc = "start"
    /\ ops = 0

\* process_raw_usgs_file on a raw file holding the one series
AggUSGS ==
    /\ pc = "start"
    /\ fs' = U_process_raw_usgs_file(fs, <<input>>)
    /\ pc' = "usgs"
    /\ UNCHANGED <<manifest, input, result, ops>>

\* process_usgs_stream_gauge_data on a response holding the one series
AggWater ==
    /\ pc = "start"
    /\ fs' = W_process_usgs_stream_gauge_data(fs, station_map(input.site_code),
                                              input.site_name, <<input>>)
    /\ pc' = "water"
    /\ UNCHANGED <<manifest, input, result, ops>>

NextAgg == AggUSGS \/ AggWater

SpecAgg == InitAgg /\ [][NextAgg]_vars

(* ---- SpecMalformed: the same handlers on series with malformed samples *)
MalformedSamples ==
    {[dateTime |-> 0, value |-> "12.0", qualifiers |-> <<>>],
     [dateTime |-> 2023060100, value |-> NoValue, qualifiers |-> <<>>],
     [dateTime |-> 2023060100, value |-> "abc", qualifiers |-> <<>>],
     [dateTime |-> 2023060100, value |-> Null, qualifiers |-> <<>>],
     [dateTime |-> 2023060100, value |-> "12.0", qualifiers |-> <<NoCode>>],
     [dateTime |-> 2023060100, value |-> "12.0",
      qualifiers |-> <<"P", NotAnObject>>]}

WellFormedSamples ==
    {[dateTime |-> 2023060100, value |-> "12.0", qualifiers |-> <<>>],
     [dateTime |-> 2023060112, value |-> "14.0", qualifiers |-> <<"P">>],
     [dateTime |-> 2023060200, value |-> "13.5", qualifiers |-> <<"R">>]}

InitMalformed ==
    /\ input \in
          {[site_code |-> "15276000", site_name |-> "Kenai River",
            variable_code |-> code, values |-> vs] :
              code \in {"00010", "00095"},
              vs \in SeqsUpTo(MalformedSamples \cup WellFormedSamples,
                              MaxSamples)}
    /\ fs = EmptyFs
    /\ manifest = BaseManifest
    /\ result = "none"
    /\ pc = "start"
    /\ ops = 0

SpecMalformed == InitMalformed /\ [][NextAgg]_vars

(* ---- SpecReagg: the same handlers on series in time order ------------- *)
\* the readings of a gauge series carry distinct, ascending timestamps:
\* two readings of one day in 2023, and two days in 2024
ReaggDateTimes == {2023060100, 2023060112, 2024060100, 2024060200}

ReaggSamples ==
    {[dateTime |-> dt, value |-> v, qualifiers |-> q] :
        dt \in ReaggDateTimes,
        v \in {"-999999.0", "12.0", "13.5", "-999999", ""},
        q \in AggQualifiers}

InTimeOrder(values) ==
    \A i \in 1..(Len(values) - 1) : values[i].dateTime < values[i + 1].dateTime

InitReagg ==
    /\ input \in
          {[site_code |-> "15276000", site_name |-> "Kenai River",
            variable_code |-> code, values |-> vs] :
              code \in {"00010", "00095"},
              vs \in {v \in SeqsUpTo(ReaggSamples, MaxSamples) :
                          InTimeOrder(v)}}
    /\ fs = EmptyFs
    /\ manifest = BaseManifest
    /\ result = "none"
    /\ pc = "start"
    /\ ops = 0

SpecReagg == InitReagg /\ [][NextAgg]_vars

(* ---- Spec: the pipeline on the data directories and the manifest ------ *)
Sample(date_time, value_str, qualifiers) ==
    [dateTime |-> date_time, value |-> value_str, qualifiers |-> qualifiers]

Series(site_code, site_name, variable_code, values) ==
    [site_code |-> site_code, site_name |-> site_name,
     variable_code |-> variable_code, values |-> values]

OneDay == <<Sample(2023060100, "12.0", <<>>)>>
TwoSameDay == <<Sample(2023060100, "12.0", <<>>),
                Sample(2023060112, "14.0", <<"P">>)>>
TwoYears == <<Sample(2024060100, "13.5", <<>>),
              Sample(2023060100, "12.0", <<"R">>)>>
SentinelOnly == <<Sample(2023060100, "-999999", <<>>)>>
TwoDays == <<Sample(2023060100, "12.0", <<>>),
            Sample(2023060112, "14.0", <<"P">>),
            Sample(2023060200, "12.0", <<>>)>>
ThreeReadings == <<Sample(2023060100, "0.045", <<>>),
                   Sample(2023060108, "0.045", <<>>),
                   Sample(2023060116, "0.045", <<>>)>>

Kenai(variable_code, values) ==
    Series("15276000", "Kenai River", variable_code, values)

\* the raw files raw-data/usgs_*.json may hold: their timeSeries lists
RawFiles ==
    {<<Kenai(code, values)>> :
        code \in {"00400", "00095", "00010"}, values \in {OneDay, TwoSameDay}}
    \cup
    {<<Kenai("99999", OneDay)>>, <<Kenai("00010", SentinelOnly)>>,
     <<Series("00000000", "Nowhere Creek", "00010", OneDay)>>,
     <<Kenai("99999", OneDay), Kenai("00010", OneDay)>>,
     <<Series("00000000", "Nowhere Creek", "00060", OneDay),
       Series("15290000", "Russian River", "00060", OneDay)>>,
     <<Series("15290000", "Russian River", "00060", TwoYears)>>,
     <<Kenai("00400", OneDay), Kenai("00095", TwoSameDay)>>,
     <<Kenai("00095", TwoDays)>>}

\* the stations main() of process-water-data.py fetches
alaska_stations ==
    {[station_id |-> "15276000", location_id |-> 410,
      location_name |-> "Kenai River"],
     [station_id |-> "15290000", location_id |-> 411,
      location_name |-> "Russian River"]}

\* the timeSeries lists a provider response may hold
Responses ==
    {<<Kenai("00010", TwoSameDay)>>,
     <<Kenai("00060", OneDay), Kenai("00010", TwoYears)>>,
     <<Kenai("00065", ThreeReadings)>>}

\* files other tools leave in the category directories: watershed
\* boundaries, and names that do not follow location-<id>-<year>.json
OtherFiles ==
    {WatershedPath(410),
     Path("04-quality", <<"location", "abc", "2023">>),
     Path("04-quality", <<"location", "410", "abc">>),
     Path("05-flow", <<"readme">>),
     Path("03-temperature", <<"location", "410", "2023", "backup">>)}

OtherContent == [note |-> "not a time series"]

\* create_sample_data_files() of setup-watershed-repo.py: the one record
\* at data/03-temperature/location-410-2023.json
SetupFiles ==
    WriteFile(EmptyFs, SeriesPath("03-temperature", 410, 2023),
        Record(410, "Kenai River", 2023, "temperature",
               <<[date |-> 20230601, key |-> "value", value |-> 12500,
                  quality |-> "good"],
                 [date |-> 20230602, key |-> "value", value |-> 13200,
                  quality |-> "good"],
                 [date |-> 20230603, key |-> "value", value |-> 14100,
                  quality |-> "good"]>>,
               [mean |-> 13270, min |-> 12500, max |-> 14100, count |-> 3],
               "USGS Stream Gauge Network"))

\* update_manifest() of setup-watershed-repo.py: only total_files is set
Setup_update_manifest(old, files) ==
    [old EXCEPT !.statistics.total_files =
        Cardinality({p \in DOMAIN files :
            p.dir \in Range(SubSeq(DataDirs, 1, 4)) /\ p.ext = "json"})]

\* the repository as main() of setup-watershed-repo.py leaves it
Init ==
    /\ fs = SetupFiles
    /\ manifest = Setup_update_manifest(BaseManifest, SetupFiles)
    /\ input = <<>>
    /\ result = BaseManifest
    /\ pc = "start"
    /\ ops = 0

\* process_raw_usgs_file(raw_file_path) on a readable raw file
ProcessRawUSGSFile ==
    /\ ops < MaxOps
    /\ \E time_series \in RawFiles :
          /\ fs' = U_process_raw_usgs_file(fs, time_series)
          /\ input' = time_series
    /\ pc' = "process_raw_usgs_file"
    /\ ops' = ops + 1
    /\ UNCHANGED <<manifest, result>>

\* process_usgs_stream_gauge_data(...) on a successful response
ProcessStreamGauge ==
    /\ ops < MaxOps
    /\ \E station \in alaska_stations, time_series \in Responses :
          /\ fs' = W_process_usgs_stream_gauge_data(fs, station.location_id,
                       station.location_name, time_series)
          /\ input' = time_series
    /\ pc' = "process_usgs_stream_gauge_data"
    /\ ops' = ops + 1
    /\ UNCHANGED <<manifest, result>>

\* another tool writes a file into a category directory
PutFile ==
    /\ ops < MaxOps
    /\ \E path \in OtherFiles : fs' = WriteFile(fs, path, OtherContent)
    /\ pc' = "put_file"
    /\ ops' = ops + 1
    /\ UNCHANGED <<manifest, input, result>>

\* a file is removed from a category directory
DeleteFile ==
    /\ ops < MaxOps
    /\ \E path \in DOMAIN fs :
          fs' = [p \in (DOMAIN fs) \ {path} |-> fs[p]]
    /\ pc' = "delete_file"
    /\ ops' = ops + 1
    /\ UNCHANGED <<manifest, input, result>>

\* position after an indexer ran: "<name>_rerun" when the same indexer ran
\* immediately before, with nothing done in between
AfterUpdate(name) ==
    IF pc \in {name, "rerun_" \o name} THEN "rerun_" \o name ELSE name

\* USGSRawDataProcessor.update_manifest(); result keeps the manifest it loaded
UpdateManifestUSGS ==
    /\ ops < MaxOps
    /\ manifest' = U_update_manifest(manifest, fs)
    /\ result' = manifest
    /\ pc' = AfterUpdate("U_update_manifest")
    /\ ops' = ops + 1
    /\ UNCHANGED <<fs, input>>

\* WaterDataProcessor.update_manifest()
UpdateManifestWater ==
    /\ ops < MaxOps
    /\ manifest' = W_update_manifest(manifest, fs)
    /\ result' = manifest
    /\ pc' = AfterUpdate("W_update_manifest")
    /\ ops' = ops + 1
    /\ UNCHANGED <<fs, input>>

\* update_manifest_with_sample_data()
UpdateManifestSample ==
    /\ ops < MaxOps
    /\ manifest' = update_manifest_with_sample_data(manifest, fs)
    /\ result' = manifest
    /\ pc' = AfterUpdate("update_manifest_with_sample_data")
    /\ ops' = ops + 1
    /\ UNCHANGED <<fs, input>>

Next ==
    \/ ProcessRawUSGSFile
    \/ ProcessStreamGauge
    \/ PutFile
    \/ DeleteFile
    \/ UpdateManifestUSGS
    \/ UpdateManifestWater
    \/ UpdateManifestSample

Spec == Init /\ [][Next]_vars

(* ---- SpecRun: one run of main() of a processing script ---------------- *)
\* On the repository as setup leaves it (pdf-source-materials holds no .txt
\* file, so main() of process-water-data.py processes no research paper).
\* input is the plan of the run: its items and the index of the next one;
\* result logs the items attempted; pc is the loop the run is in, then
\* "done" or "halted".

\* manifest.json is absent, is not JSON, or lacks the statistics object:
\* open, json.load or manifest["statistics"] raises
UnreadableManifests ==
    {[error |-> "FileNotFoundError"], [error |-> "JSONDecodeError"],
     [version |-> "1.0.0"]}

\* "with open(manifest_path, 'r') as f: manifest = json.load(f)" and
\* manifest["statistics"][...] = ... go through
Readable(m) == "statistics" \in DOMAIN m

\* what raw-data/usgs_*.json may hold: no JSON, JSON without timeSeries, or
\* a timeSeries list
RunRawFiles ==
    {[kind |-> "unreadable_json", time_series |-> <<>>],
     [kind |-> "no_time_series", time_series |-> <<>>],
     [kind |-> "ok", time_series |-> <<Kenai("00010", OneDay)>>],
     [kind |-> "ok", time_series |-> <<Kenai("99999", OneDay),
                                      Kenai("00095", TwoSameDay)>>],
     [kind |-> "ok", time_series |->
         <<Series("15290000", "Russian River", "00065", TwoYears)>>],
     [kind |-> "ok", time_series |-> <<Kenai("00400", OneDay),
                                      Kenai("00095", OneDay)>>]}

\* "for raw_file in raw_files: self.process_raw_usgs_file(raw_file_path)",
\* the whole loop on the listing raw_files
RECURSIVE ProcessAll(_, _)
ProcessAll(files, raw_files) ==
    IF raw_files = <<>> THEN files
    ELSE ProcessAll(IF Head(raw_files).kind = "ok"
                    THEN U_process_raw_usgs_file(files,
                                                 Head(raw_files).time_series)
                    ELSE files,
                    Tail(raw_files))

\* "for station in alaska_stations: for year in [2023, 2024]", in the order
\* the loops visit them
AlaskaStationYears ==
    <<[station_id |-> "15276000", location_id |-> 410,
       location_name |-> "Kenai River", year |-> 2023],
      [station_id |-> "15276000", location_id |-> 410,
       location_name |-> "Kenai River", year |-> 2024],
      [station_id |-> "15290000", location_id |-> 411,
       location_name |-> "Russian River", year |-> 2023],
      [station_id |-> "15290000", location_id |-> 411,
       location_name |-> "Russian River", year |-> 2024],
      [station_id |-> "15284000", location_id |-> 412,
       location_name |-> "Moose River", year |-> 2023],
      [station_id |-> "15284000", location_id |-> 412,
       location_name |-> "Moose River", year |-> 2024]>>

\* the iterations of the loops a run is followed through
StationYears == SubSeq(AlaskaStationYears, 1, MaxStationYears)

\* what requests.get, raise_for_status and response.json() may do
FetchOutcomes ==
    {[kind |-> k, time_series |-> <<>>] :
        k \in {"network_error", "timeout", "http_error", "unreadable_json",
               "no_time_series"}}
    \cup
    {[kind |-> "ok", time_series |-> ts] :
        ts \in {<<Kenai("00010", TwoSameDay)>>,
                <<Kenai("00060", OneDay), Kenai("00065", TwoYears)>>}}

\* variant: the loop is left when an item returns False
AfterItem_stopping(loop, returned) == IF returned THEN loop ELSE "aborted"

\* the loops of process_all_raw_files and of main go on to the next item
\* whatever the item returned
AfterItem(loop, returned) == loop

\* variant: an unreadable manifest is replaced by a fresh one
MainUpdateManifest_recreating(loop, old, files) ==
    LET base == IF Readable(old) THEN old ELSE BaseManifest
    IN  [manifest |-> IF loop = "process_all_raw_files"
                      THEN U_update_manifest(base, files)
                      ELSE W_update_manifest(base, files),
         pc |-> "done"]

\* processor.update_manifest() as main() calls it: the exception of an
\* unreadable manifest is not caught and ends the run before anything is
\* written
MainUpdateManifest(loop, old, files) ==
    IF ~Readable(old) THEN [manifest |-> old, pc |-> "halted"]
    ELSE [manifest |-> IF loop = "process_all_raw_files"
                       THEN U_update_manifest(old, files)
                       ELSE W_update_manifest(old, files),
          pc |-> "done"]

\* a manifest an earlier run wrote from other directory contents, with
\* fields the updaters do not know
EarlierManifest ==
    [version |-> "1.0.0", dataset_name |-> "afca-watershed-dataset",
     description |-> "Alaska watershed data",
     statistics |-> [total_files |-> 9, locations_covered |-> 3,
                     years_covered |-> <<2022>>, data_types |-> 4],
     organized |-> DictPut(EmptyFs, "413", NewEntry(413))]

InitRun ==
    /\ fs = SetupFiles
    /\ manifest \in {Setup_update_manifest(BaseManifest, SetupFiles),
                      EarlierManifest}
                      \cup UnreadableManifests
    /\ \/ /\ pc = "process_all_raw_files"
          /\ \E raw_files \in SeqsUpTo(RunRawFiles, MaxFiles) :
                 input = [items |-> raw_files, next |-> 1]
       \/ /\ pc = "stations"
          /\ input = [items |-> StationYears, next |-> 1]
    /\ result = <<>>
    /\ ops = 0

\* one iteration of "for raw_file in raw_files" of process_all_raw_files
ProcessAllRawFilesStep ==
    /\ pc = "process_all_raw_files"
    /\ input.next <= Len(input.items)
    /\ LET raw_file == input.items[input.next]
           returned == raw_file.kind = "ok"
       IN  /\ fs' = IF returned
                     THEN U_process_raw_usgs_file(fs, raw_file.time_series)
                     ELSE fs
           /\ result' = Append(result, [item |-> input.next,
                                        kind |-> raw_file.kind,
                                        returned |-> returned])
           /\ pc' = AfterItem(pc, returned)
    /\ input' = [input EXCEPT !.next = @ + 1]
    /\ ops' = ops + 1
    /\ UNCHANGED manifest

\* one iteration of the station and year loops of main() of
\* process-water-data.py
StationsLoopStep ==
    /\ pc = "stations"
    /\ input.next <= Len(input.items)
    /\ \E outcome \in FetchOutcomes :
          LET station == input.items[input.next]
              returned == outcome.kind = "ok"
                          /\ \A code \in {"00060", "00010", "00065"} :
                                 ~W_ExtractRaises(outcome.time_series, code)
          IN  /\ fs' = IF outcome.kind = "ok"
                        THEN W_process_usgs_stream_gauge_data(fs,
                                 station.location_id, station.location_name,
                                 outcome.time_series)
                        ELSE fs
              /\ result' = Append(result, [item |-> input.next,
                                           kind |-> outcome.kind,
                                           returned |-> returned])
              /\ pc' = AfterItem(pc, returned)
    /\ input' = [input EXCEPT !.next = @ + 1]
    /\ ops' = ops + 1
    /\ UNCHANGED manifest

\* processor.update_manifest(), once the loops are over
RunUpdateManifest ==
    /\ pc \in {"process_all_raw_files", "stations"}
    /\ input.next > Len(input.items)
    /\ manifest' = MainUpdateManifest(pc, manifest, fs).manifest
    /\ pc' = MainUpdateManifest(pc, manifest, fs).pc
    /\ ops' = ops + 1
    /\ UNCHANGED <<fs, input, result>>

NextRun == ProcessAllRawFilesStep \/ StationsLoopStep \/ RunUpdateManifest

SpecRun == InitRun /\ [][NextRun]_vars

\* the interpreter executing the next statement of main(): while a loop or
\* the manifest update is pending, the run takes its next step. Every step
\* of NextRun counts one operation, so the steps of NextRun are the RunStep
\* steps that change ops, and one is enabled exactly while the run is pending
RunStep == pc \in {"process_all_raw_files", "stations"} /\ ops' = ops + 1

\* every call of main() returns: the run is not suspended forever
SpecRunFair == SpecRun /\ WF_ops(RunStep)

(* ---- SpecResearch: one research paper through the processor ---------- *)
\* what _extract_temperature_from_text finds: readings between 0 and 30
ResearchTemperatures ==
    {[i \in 1..n |-> t] : n \in 0..MaxReadings, t \in {8000, 12500}}

\* what _extract_flow_from_text finds: readings between 0 and 100000
ResearchFlows == {<<>>, <<1200000>>, <<1200000, 950000>>}

\* what _extract_locations_from_text finds, in the order of location_mapping
ResearchLocations ==
    {<<>>, <<[id |-> 410, name |-> "Kenai River"]>>,
     <<[id |-> 410, name |-> "Kenai River"],
       [id |-> 411, name |-> "Russian River"]>>}

InitResearch ==
    /\ fs = SetupFiles
    /\ manifest = Setup_update_manifest(BaseManifest, SetupFiles)
    /\ input \in {[temperatures |-> t, flows |-> f, locations |-> l] :
                     t \in ResearchTemperatures, f \in ResearchFlows,
                     l \in ResearchLocations}
    /\ result = "none"
    /\ pc = "start"
    /\ ops = 0

\* process_research_paper_data(pdf_text_file, location_mapping)
ProcessResearchPaper ==
    /\ pc = "start"
    /\ fs' = W_process_research_paper_data(fs, input.temperatures,
                                           input.flows, input.locations)
    /\ pc' = "process_research_paper_data"
    /\ ops' = ops + 1
    /\ UNCHANGED <<manifest, input, result>>

NextResearch == ProcessResearchPaper

SpecResearch == InitResearch /\ [][NextResearch]_vars

(* ---- SpecValidate: the validator over a repository of data files ----- *)
Without(record, field) == [k \in DOMAIN record \ {field} |-> record[k]]

\* the JSON object `record` with `field` set to `value`
With(record, field, value) == (field :> value) @@ record

Day(date, key, value) ==
    [date |-> date, key |-> key, value |-> value, quality |-> "good"]

\* a daily entry whose value is a string
TextDay(date, key) ==
    [date |-> date, key |-> key, value |-> 0, quality |-> "good",
     text |-> {"value"}]

\* a record of the three values under `key`, with the statistics
\* _save_processed_data computes for them
Yearly(year, parameter, key, a, b, c) ==
    Record(410, "Kenai River", year, parameter,
           <<Day(year * 10000 + 601, key, a), Day(year * 10000 + 602, key, b),
             Day(year * 10000 + 603, key, c)>>,
           Statistics(<<a, b, c>>), "USGS Stream Gauge Network")

\* statistics no list of values has: the mean lies under the minimum
InconsistentStatistics ==
    [mean |-> 11000, min |-> 12000, max |-> 13000, count |-> 3]

Watershed(location_id, drainage_area_sq_miles) ==
    [location_id |-> location_id, location_name |-> "Kenai River",
     data_sources |-> <<"USGS">>,
     drainage_area_sq_miles |-> drainage_area_sq_miles,
     primary_tributaries |-> <<"Russian River", "Killey River">>]

\* the records the two processors write for one station
ProcessedFiles ==
    W_process_usgs_stream_gauge_data(
        U_process_raw_usgs_file(EmptyFs,
            <<Kenai("00010", TwoDays), Kenai("00400", OneDay)>>),
        410, "Kenai River",
        <<Kenai("00060", OneDay), Kenai("00065", ThreeReadings)>>)

TemperatureFiles ==
    LET dir == "03-temperature"
        fine == Yearly(2024, "temperature", "temperature_c",
                       12000, 12500, 13000)
    IN  (SeriesPath(dir, 410, 2024) :> Without(fine, "data"))
     @@ (SeriesPath(dir, 410, 2025) :>
            Yearly(2025, "temperature", "temperature_c", 30000, 12000, -6000))
     @@ (SeriesPath(dir, 411, 2023) :>
            With(fine, "statistics", InconsistentStatistics))
     @@ (SeriesPath(dir, 411, 2024) :>
            SetupFiles[SeriesPath(dir, 410, 2023)])
     @@ (SeriesPath(dir, 411, 2025) :>
            With(fine, "data",
                 <<Day(20240601, "temperature_c", 26000),
                   TextDay(20240602, "temperature_c")>>))
     @@ (SeriesPath(dir, 412, 2023) :> Without(fine, "year"))
     @@ (SeriesPath(dir, 412, 2024) :>
            With(fine, "statistics",
                 [mean |-> 0, min |-> 12000, max |-> 13000, count |-> 3,
                  text |-> {"mean"}]))
     @@ (SeriesPath(dir, 412, 2025) :> [json_error |-> TRUE])
     @@ (SeriesPath(dir, 413, 2023) :> [not_an_object |-> "list"])
     @@ (SeriesPath(dir, 413, 2024) :> [not_an_object |-> "number"])
     @@ (SeriesPath(dir, 413, 2025) :>
            With(Yearly(2025, "temperature", "temperature_c",
                        12000, 27500, 13000),
                 "statistics", InconsistentStatistics))

FlowFiles ==
    LET dir == "05-flow"
        fine == Yearly(2024, "flow", "flow_cfs", 1200000, 950000, 1000000)
    IN  (SeriesPath(dir, 410, 2024) :> Without(fine, "data"))
     @@ (SeriesPath(dir, 410, 2025) :>
            Yearly(2025, "flow", "flow_cfs", -1000, 1200000, 60000000))
     @@ (SeriesPath(dir, 411, 2023) :>
            With(fine, "statistics", InconsistentStatistics))
     @@ (SeriesPath(dir, 411, 2024) :>
            With(fine, "text", {"year"}))
     @@ (SeriesPath(dir, 411, 2025) :>
            With(fine, "no_last_updated", TRUE))
     @@ (SeriesPath(dir, 412, 2023) :>
            With(fine, "data", <<TextDay(20240601, "flow_cfs")>>))

QualityFiles ==
    LET dir == "04-quality"
        fine == Yearly(2024, "ph", "ph", 7000, 7200, 6900)
    IN  (SeriesPath(dir, 410, 2024) :> Without(fine, "data"))
     @@ (SeriesPath(dir, 410, 2025) :>
            Yearly(2025, "ph", "ph", 11000, 7000, 3500))
     @@ (SeriesPath(dir, 411, 2023) :>
            With(fine, "statistics", InconsistentStatistics))
     @@ (SeriesPath(dir, 411, 2024) :>
            Yearly(2024, "stage", "stage_ft", 1000, 1100, 1200))
     @@ (SeriesPath(dir, 411, 2025) :>
            Yearly(2025, "conductivity", "conductivity_us_cm",
                   120000, 0, 135000))
     @@ (SeriesPath(dir, 412, 2023) :>
            With(fine, "text", {"location_id"}))

StageFiles ==
    LET dir == "06-stage"
        fine == Yearly(2024, "stage", "stage_ft", 1000, 1100, 1200)
    IN  (SeriesPath(dir, 410, 2024) :> Without(fine, "data"))
     @@ (SeriesPath(dir, 411, 2023) :>
            With(fine, "statistics", InconsistentStatistics))
     @@ (SeriesPath(dir, 411, 2024) :> fine)

WatershedFiles ==
    (WatershedPath(410) :> Watershed(410, 2200000))
     @@ (WatershedPath(411) :>
            Without(Watershed(411, 150000), "primary_tributaries"))
     @@ (WatershedPath(412) :> Watershed(412, 0))
     @@ (WatershedPath(413) :>
            With(Watershed(413, 0), "text", {"drainage_area_sq_miles"}))

\* data/: what the processors wrote and what other tools or hands left
ValidateFiles ==
    ProcessedFiles @@ TemperatureFiles @@ FlowFiles @@ QualityFiles
    @@ StageFiles @@ WatershedFiles

\* the file validated last, before any was
NoFile == [dir |-> "", parts |-> <<>>, ext |-> ""]

\* WaterDataValidator() over the repository
InitValidate ==
    /\ fs = ValidateFiles
    /\ manifest = BaseManifest
    /\ input = NoFile
    /\ result = V_NewResults
    /\ pc = "start"
    /\ ops = 0

\* validate_file(file_path, directory_name), called as validate_directory
\* calls it: directory_name is the directory of the file
ValidateFile ==
    /\ ops < MaxCalls
    /\ \E file_path \in DOMAIN fs :
          /\ result' = V_validate_file(result, fs[file_path], file_path,
                                       file_path.dir)
          /\ input' = file_path
    /\ pc' = "validate_file"
    /\ ops' = ops + 1
    /\ UNCHANGED <<fs, manifest>>

NextValidate == ValidateFile

SpecValidate == InitValidate /\ [][NextValidate]_vars

(* =============================== claims =============================== *)
\* the files that hold a time-series record
SeriesFiles == {p \in DOMAIN fs : "data" \in DOMAIN fs[p]}

\* the daily entries of the persisted records, as <<path, index>> pairs
DayEntries ==
    UNION {{<<p, i>> : i \in 1..Len(fs[p].data)} : p \in SeriesFiles}

\* the raw samples of the input series that fall on `date`
SamplesOn(date) ==
    SelectSeq(input.values, LAMBDA v : DateOf(v.dateTime) = date)

\* a valid sample: not empty, parses as a number, and is not the sentinel
ValidSample(v) ==
    v.value /= "" /\ FloatOk(v.value) /\ Float(v.value) /= Sentinel

\* a sample the aggregators keep: it parses, and is neither empty nor the
\* string "-999999"
Constituent(v) == v.value \notin {"", "-999999"} /\ FloatOk(v.value)

\* the tier of one sample as a function of the set of its codes
TierOfSet(codes) ==
    IF codes \cap {"R", "S"} /= {} THEN "poor"
    ELSE IF codes \cap {"P", "e", "A"} /= {} THEN "fair"
    ELSE "good"

\* worst tier wins
WorstTier(tiers) ==
    IF "poor" \in tiers THEN "poor"
    ELSE IF tiers \subseteq {"good"} THEN "good"
    ELSE "fair"

RECURSIVE SumOver(_, _)
SumOver(I, f) ==
    IF I = {} THEN 0
    ELSE LET i == CHOOSE j \in I : TRUE IN f[i] + SumOver(I \ {i}, f)

AggDone == pc \in {"usgs", "water"}

\* the series is one the Water handler extracts (flow, temperature, stage)
WaterHandles == input.variable_code \in {"00060", "00010", "00065"}

\* C1: in both daily aggregators the quality of every day is poor if any
\* constituent sample of that date is poor, else fair if not all are good,
\* else good.  Stated on the dates all of whose samples are valid, where
\* the constituents of the day are beyond question.
C1_WorstTierWins ==
    AggDone =>
        \A e \in DayEntries :
            LET day == fs[e[1]].data[e[2]]
                on == SamplesOn(day.date)
                tiers == {TierOfSet(Range(on[i].qualifiers)) :
                             i \in 1..Len(on)}
            IN  (\A i \in 1..Len(on) : ValidSample(on[i])) =>
                    day.quality = WorstTier(tiers)

\* C1 restricted to USGSRawDataProcessor, whose aggregator does follow the
\* rule
C1_WorstTierWinsUSGS == pc = "usgs" => C1_WorstTierWins

\* C2: no daily value is the sentinel -999999, nor the mean of a set of
\* that date's samples that includes a sample numerically equal to it.
C2_NoSentinelInOutput ==
    AggDone =>
        \A e \in DayEntries :
            LET day == fs[e[1]].data[e[2]]
                on == SamplesOn(day.date)
                num == {j \in 1..Len(on) : FloatOk(on[j].value)}
                val == [j \in num |-> Float(on[j].value)]
            IN  ~ \E I \in SUBSET num :
                    /\ \E j \in I : val[j] = Sentinel
                    /\ \E ndigits \in {0, 2} :
                          day.value = Round(SumOver(I, val), Cardinality(I),
                                            ndigits)

\* C3: the aggregation output holds exactly one record for every date with
\* at least one valid sample, none for any other date, and the dates of
\* every persisted series are strictly ascending.
C3_OneRecordPerValidDate ==
    (pc = "usgs" \/ (pc = "water" /\ WaterHandles)) =>
        /\ \A p \in DOMAIN fs : \A i \in 1..(Len(fs[p].data) - 1) :
               fs[p].data[i].date < fs[p].data[i + 1].date
        /\ \A e \in DayEntries :
               \E j \in 1..Len(input.values) :
                   /\ DateOf(input.values[j].dateTime) = fs[e[1]].data[e[2]].date
                   /\ ValidSample(input.values[j])
        /\ \A j \in 1..Len(input.values) :
               ValidSample(input.values[j]) =>
                   Cardinality({e \in DayEntries :
                       fs[e[1]].data[e[2]].date =
                           DateOf(input.values[j].dateTime)}) = 1

\* C3 with "valid" read as the aggregators read it (string comparison with
\* "-999999"): this much the code does guarantee
C3_OneRecordPerKeptDate ==
    (pc = "usgs" \/ (pc = "water" /\ WaterHandles)) =>
        /\ \A p \in DOMAIN fs : \A i \in 1..(Len(fs[p].data) - 1) :
               fs[p].data[i].date < fs[p].data[i + 1].date
        /\ \A e \in DayEntries :
               \E j \in 1..Len(input.values) :
                   /\ DateOf(input.values[j].dateTime) = fs[e[1]].data[e[2]].date
                   /\ Constituent(input.values[j])
        /\ \A j \in 1..Len(input.values) :
               Constituent(input.values[j]) =>
                   Cardinality({e \in DayEntries :
                       fs[e[1]].data[e[2]].date =
                           DateOf(input.values[j].dateTime)}) = 1

\* C10: the tier of one raw sample is poor when its code set holds R or S,
\* otherwise fair when it holds P, e or A, otherwise good, whatever the
\* order of the codes.
C10_TierIsFunctionOfCodeSet ==
    pc \in {"classified_usgs", "classified_water"} =>
        result = TierOfSet(Range(input))

\* C4: in every persisted time-series record statistics.count is the number
\* of samples in its data array.
C4_CountIsLenOfData ==
    \A p \in SeriesFiles : fs[p].statistics.count = Len(fs[p].data)

\* C5: after a raw file is processed, every series of it that resolves and
\* has a valid sample in some year has its record on disk: the record of
\* one parameter is not replaced by that of another.
C5_EveryParameterLocatable ==
    pc = "process_raw_usgs_file" =>
        \A i \in 1..Len(input) :
            LET series == input[i]
                parameter == parameter_map(series.variable_code)
                location_id == station_map(series.site_code)
            IN  (parameter /= "unknown" /\ location_id /= 0) =>
                    \A j \in 1..Len(series.values) :
                        ValidSample(series.values[j]) =>
                            \E p \in SeriesFiles :
                                /\ fs[p].location_id = location_id
                                /\ fs[p].parameter = parameter
                                /\ fs[p].year =
                                     YearOf(DateOf(series.values[j].dateTime))

UpdatedByUSGS == pc \in {"U_update_manifest", "rerun_U_update_manifest"}
UpdatedByWater == pc \in {"W_update_manifest", "rerun_W_update_manifest"}
UpdatedBySample ==
    pc \in {"update_manifest_with_sample_data",
            "rerun_update_manifest_with_sample_data"}

\* every path manifest.organized refers to
ManifestPaths ==
    UNION {{manifest.organized[k].watershed} \cup
           UNION {{manifest.organized[k][cat][y] :
                      y \in DOMAIN manifest.organized[k][cat]} :
                  cat \in (DOMAIN manifest.organized[k]) \ {"watershed"}} :
           k \in DOMAIN manifest.organized}

\* C6: after any manifest update every path in manifest.organized names a
\* file that exists.
C6_ManifestPathsExist ==
    (UpdatedByUSGS \/ UpdatedByWater \/ UpdatedBySample) =>
        ManifestPaths \subseteq DOMAIN fs

\* C7: an update_manifest that runs right after itself, nothing having
\* changed in the data directories, leaves organized and statistics as they
\* were.
C7_RebuildIdempotent ==
    [][pc' \in {"rerun_U_update_manifest", "rerun_W_update_manifest"} =>
          /\ manifest'.organized = manifest.organized
          /\ manifest'.statistics = manifest.statistics]_vars

C7_Witness ==
    /\ pc \in {"rerun_U_update_manifest", "rerun_W_update_manifest"}
    /\ manifest.statistics.total_files > 1
    /\ DOMAIN manifest.organized /= {}

\* what the category directories hold, read off the file names
JsonFiles == {p \in DOMAIN fs : p.dir \in Range(DataDirs) /\ p.ext = "json"}
NamesLocation(p) ==
    HasLocationDash(p.parts) /\ Len(p.parts) >= 2 /\ IntOk(p.parts[2])
NamesYear(p) ==
    NamesLocation(p) /\ Len(p.parts) >= 3 /\ IntOk(p.parts[3])
YearFiles == {p \in JsonFiles : NamesYear(p)}
LocationKey(p) == Str(IntOf(p.parts[2]))
YearKey(p) == Str(IntOf(p.parts[3]))

\* the locations each indexer counts
LocationsCounted ==
    IF UpdatedByUSGS
    THEN {IntOf(p.parts[2]) :
             p \in {q \in JsonFiles : NamesLocation(q) /\ Len(q.parts) >= 3}}
    ELSE {IntOf(p.parts[2]) : p \in {q \in JsonFiles : NamesLocation(q)}}

\* C8: what update_manifest writes is determined by the present contents of
\* the category directories: total_files counts their .json files, the
\* statistics list the locations and years their names carry, organized has
\* an entry exactly for each file that names a location and a year, and
\* nothing else (nothing of the manifest that was loaded).
C8_FullRebuild ==
    (UpdatedByUSGS \/ UpdatedByWater) =>
        /\ manifest.statistics.total_files = Cardinality(JsonFiles)
        /\ manifest.statistics.locations_covered =
               Cardinality(LocationsCounted)
        /\ Range(manifest.statistics.years_covered) =
               {IntOf(p.parts[3]) : p \in YearFiles}
        /\ DOMAIN manifest.organized = {LocationKey(p) : p \in YearFiles}
        /\ \A k \in DOMAIN manifest.organized :
               \A cat \in {"temperature", "flow", "quality", "stage"} :
                   /\ DOMAIN manifest.organized[k][cat] =
                        {YearKey(p) : p \in {q \in YearFiles :
                            LocationKey(q) = k /\ CategoryOf(q.dir) = cat}}
                   /\ \A y \in DOMAIN manifest.organized[k][cat] :
                        \E q \in YearFiles :
                            /\ manifest.organized[k][cat][y] =
                                 Path(q.dir, <<"location", k, y>>)
                            /\ LocationKey(q) = k /\ YearKey(q) = y
                            /\ CategoryOf(q.dir) = cat

\* the loaded manifest indexed a location whose files are gone, and the
\* rebuilt one no longer does
C8_Witness ==
    /\ UpdatedByUSGS \/ UpdatedByWater
    /\ \E k \in DOMAIN result.organized : k \notin DOMAIN manifest.organized
    /\ result.statistics.total_files > manifest.statistics.total_files

\* a .json name in a category directory that yields no integer location_id
\* or no integer year (watershed boundaries carry no year by convention)
Malformed(p) ==
    /\ ~NamesYear(p)
    /\ ~(p.dir = "02-watersheds" /\ Len(p.parts) = 2 /\ NamesLocation(p))

WellFormedFiles ==
    [p \in {q \in DOMAIN fs : ~Malformed(q)} |-> fs[p]]

\* C9: the rebuilt organized index and statistics are those of the
\* directories without the files whose names are malformed.
C9_MalformedNamesSkipped ==
    /\ UpdatedByUSGS =>
          LET clean == U_update_manifest(result, WellFormedFiles)
          IN  /\ manifest.organized = clean.organized
              /\ manifest.statistics = clean.statistics
    /\ UpdatedByWater =>
          LET clean == W_update_manifest(result, WellFormedFiles)
          IN  /\ manifest.organized = clean.organized
              /\ manifest.statistics = clean.statistics

\* the part of C9 the indexers do guarantee: organized is that of the
\* directories without the malformed names
C9_MalformedNamesNotIndexed ==
    /\ UpdatedByUSGS =>
          manifest.organized =
              U_update_manifest(result, WellFormedFiles).organized
    /\ UpdatedByWater =>
          manifest.organized =
              W_update_manifest(result, WellFormedFiles).organized

\* the numeric values of the samples of `samples` that satisfy `keep`
ValuesOf(samples, keep(_)) ==
    LET kept == SelectSeq(samples, keep)
    IN  [i \in 1..Len(kept) |-> Float(kept[i].value)]

\* C11: every daily value is the arithmetic mean of exactly that date's
\* valid sample values, rounded to the parameter's precision (0 decimals for
\* conductivity, 2 otherwise), and a date with a single valid sample carries
\* that sample's value and quality.
C11_DailyMeanOfValidSamples ==
    (pc = "usgs" \/ (pc = "water" /\ WaterHandles)) =>
        \A e \in DayEntries :
            LET day == fs[e[1]].data[e[2]]
                valid == SelectSeq(SamplesOn(day.date), ValidSample)
                values == ValuesOf(SamplesOn(day.date), ValidSample)
                parameter == parameter_map(input.variable_code)
            IN  /\ values /= <<>>
                /\ day.value = Round(SumSeq(values), Len(values),
                                     IF parameter = "conductivity" THEN 0
                                     ELSE 2)
                /\ Len(valid) = 1 =>
                       day.quality = TierOfSet(Range(valid[1].qualifiers))

\* C11 as USGSRawDataProcessor guarantees it: the mean is taken over the
\* samples its string test keeps
C11_DailyMeanOfKeptSamplesUSGS ==
    pc = "usgs" =>
        \A e \in DayEntries :
            LET day == fs[e[1]].data[e[2]]
                kept == SelectSeq(SamplesOn(day.date), Constituent)
                values == ValuesOf(SamplesOn(day.date), Constituent)
                parameter == parameter_map(input.variable_code)
            IN  /\ values /= <<>>
                /\ day.value = Round(SumSeq(values), Len(values),
                                     IF parameter = "conductivity" THEN 0
                                     ELSE 2)
                /\ Len(kept) = 1 =>
                       day.quality = TierOfSet(Range(kept[1].qualifiers))

\* C12: in every persisted time-series record
\* statistics.min <= statistics.mean <= statistics.max.
C12_MinMeanMax ==
    \A p \in SeriesFiles :
        /\ fs[p].statistics.min <= fs[p].statistics.mean
        /\ fs[p].statistics.mean <= fs[p].statistics.max

\* the number of decimals of a parameter's daily values
Precision(parameter) == IF parameter = "conductivity" THEN 0 ELSE 2

\* x has at most `ndigits` decimals
HasDecimals(x, ndigits) == x % Unit(ndigits) = 0

\* C13: the statistics mean, min and max of every persisted record have the
\* precision of the parameter's daily values: 0 decimals for conductivity,
\* 2 otherwise.
C13_StatisticsPrecision ==
    \A p \in SeriesFiles :
        /\ HasDecimals(fs[p].statistics.mean, Precision(fs[p].parameter))
        /\ HasDecimals(fs[p].statistics.min, Precision(fs[p].parameter))
        /\ HasDecimals(fs[p].statistics.max, Precision(fs[p].parameter))

\* C14: no persisted record has an empty data array or a zero count, and a
\* series none of whose samples is valid (all sentinel, empty or unparsable)
\* produces no file at all.
C14_NoEmptyYear ==
    AggDone =>
        /\ \A p \in SeriesFiles :
               fs[p].data /= <<>> /\ fs[p].statistics.count > 0
        /\ (\A j \in 1..Len(input.values) : ~ValidSample(input.values[j]))
               => fs = EmptyFs

\* C14 with the samples read as the aggregators read them: no empty record,
\* and no file for a series of which no sample is kept
C14_NoEmptyYearOfKept ==
    AggDone =>
        /\ \A p \in SeriesFiles :
               fs[p].data /= <<>> /\ fs[p].statistics.count > 0
        /\ (\A j \in 1..Len(input.values) : ~Constituent(input.values[j]))
               => fs = EmptyFs

\* the path the record of one sample of one series is keyed by
KeyPath(series, sample) ==
    SeriesPath(OutputDir(parameter_map(series.variable_code)),
               station_map(series.site_code),
               YearOf(DateOf(sample.dateTime)))

\* C15: every file process_raw_usgs_file writes through _save_processed_data
\* lies at data/<category-dir>/location-<location_id>-<year>.json for the
\* category, location and year of a sample of the raw file; afterwards it
\* holds exactly the record the raw file yields on empty directories
\* (nothing of what was stored there before), and every other file is as it
\* was.
C15_SaveIsFullReplace ==
    [][(pc' = "process_raw_usgs_file" /\ ops' = ops + 1) =>
          LET written == U_process_raw_usgs_file(EmptyFs, input')
          IN  /\ DOMAIN fs' = (DOMAIN fs) \cup (DOMAIN written)
              /\ \A p \in DOMAIN fs' :
                     fs'[p] = IF p \in DOMAIN written THEN written[p]
                              ELSE fs[p]
              /\ \A p \in DOMAIN written :
                     /\ \E i \in 1..Len(input') :
                            \E j \in 1..Len(input'[i].values) :
                                /\ parameter_map(input'[i].variable_code)
                                       \in Parameters
                                /\ station_map(input'[i].site_code) /= 0
                                /\ p = KeyPath(input'[i], input'[i].values[j])
                                /\ fs'[p].parameter =
                                       parameter_map(input'[i].variable_code)
                     /\ p = SeriesPath(OutputDir(fs'[p].parameter),
                                       fs'[p].location_id, fs'[p].year)]_vars

\* a raw temperature file for Kenai River 2023 was processed over the
\* three-day record the repository starts with, beside a file of another
\* tool: the record now holds the one new day only
C15_Witness ==
    /\ pc = "process_raw_usgs_file"
    /\ WatershedPath(410) \in DOMAIN fs
    /\ SeriesPath("03-temperature", 410, 2023) \in DOMAIN fs
    /\ Len(fs[SeriesPath("03-temperature", 410, 2023)].data) = 1
    /\ fs[SeriesPath("03-temperature", 410, 2023)].data[1].key =
           "temperature_c"

\* the series whose parameter code and station code both resolve
Resolves(series) ==
    /\ parameter_map(series.variable_code) \in Parameters
    /\ station_map(series.site_code) /= 0

\* C16: a series of a raw file whose parameter code or station code is not
\* in the tables is skipped.  Processing the raw file changes the files
\* exactly as processing its resolving series alone does: the skipped series
\* writes and changes nothing, and the series before and after it are
\* processed.  The same holds of every later step, whatever the raw files
\* before it held: a later raw file is processed in full.
C16_UnresolvedSeriesSkipped ==
    [][(pc' = "process_raw_usgs_file" /\ ops' = ops + 1) =>
          /\ fs' = U_process_raw_usgs_file(fs, SelectSeq(input', Resolves))
          /\ (\A i \in 1..Len(input') : ~Resolves(input'[i])) => fs' = fs]_vars

\* a raw file whose first series carries the unknown code 99999 and whose
\* second series is Kenai River temperature was processed: the temperature
\* record is the one of the second series
C16_Witness ==
    /\ pc = "process_raw_usgs_file"
    /\ Len(input) = 2
    /\ ~Resolves(input[1]) /\ Resolves(input[2])
    /\ KeyPath(input[2], input[2].values[1]) \in DOMAIN fs
    /\ fs[KeyPath(input[2], input[2].values[1])].data[1].key
           = OutputKey(parameter_map(input[2].variable_code))

\* a sample that is not malformed: it has a timestamp and a value that is
\* a number, the sentinel or empty, and every qualifier entry has a code
WellFormedSample(v) ==
    /\ HasDateTime(v)
    /\ v.value \notin {NoValue, Null}
    /\ v.value = "" \/ FloatOk(v.value)
    /\ \A i \in 1..Len(v.qualifiers) :
           v.qualifiers[i] \notin {NoCode, NotAnObject}

\* the input series without its malformed samples
WithoutMalformed == [input EXCEPT !.values = SelectSeq(@, WellFormedSample)]

\* C17: a malformed sample (no timestamp, no value, a value that is not a
\* number such as "abc" or null, a malformed qualifier entry) is dropped
\* alone: the persisted records are those of the same series without its
\* malformed samples.
C17_MalformedSampleDropped ==
    /\ pc = "usgs" =>
          fs = U_process_raw_usgs_file(EmptyFs, <<WithoutMalformed>>)
    /\ pc = "water" =>
          fs = W_process_usgs_stream_gauge_data(EmptyFs,
                   station_map(input.site_code), input.site_name,
                   <<WithoutMalformed>>)

\* no sample of the input raises TypeError in either extractor
NoTypeError ==
    \A i \in 1..Len(input.values) :
        /\ input.values[i].value /= Null
        /\ \A j \in 1..Len(input.values[i].qualifiers) :
               input.values[i].qualifiers[j] /= NotAnObject

\* C17 for the malformed samples that raise KeyError or ValueError, which
\* both extractors do recover from
C17_KeyAndValueErrorsDropped == NoTypeError => C17_MalformedSampleDropped

RunEnded == pc \in {"done", "halted"}

\* C18: a failed item (network error, timeout, non-2xx status, unreadable
\* JSON, missing timeSeries) ends only that item: every run comes to its
\* manifest update, having attempted every item of its plan exactly once
\* and in order.
C18_RunReachesManifestUpdate ==
    <>(/\ RunEnded
       /\ Len(result) = Len(input.items)
       /\ \A i \in 1..Len(result) : result[i].item = i)

\* a run ended in which an item failed and a later item wrote a record
C18_Witness ==
    /\ RunEnded
    /\ \E i \in 1..Len(result) : \E j \in (i + 1)..Len(result) :
           ~result[i].returned /\ result[j].returned
    /\ fs /= SetupFiles

\* the run is in one of its loops or about to update the manifest
RunPending == pc \in {"process_all_raw_files", "stations"}

\* C19: a run halts only in update_manifest on a manifest that cannot be
\* loaded, after every item of the plan was attempted; the halted run writes
\* no manifest and leaves the records it persisted; with a loadable
\* manifest the run ends complete, and no step of a run puts it anywhere
\* but in its loops, halted on the manifest, or done.
C19_OnlyManifestHalts ==
    /\ [](pc \in {"process_all_raw_files", "stations", "halted", "done"})
    /\ [](pc = "halted" => /\ ~Readable(manifest)
                           /\ Len(result) = Len(input.items))
    /\ [](pc = "done" => Readable(manifest))
    /\ [][/\ ~Readable(manifest) => manifest' = manifest
          /\ pc' = "halted" => fs' = fs
          /\ pc = "halted" => UNCHANGED vars]_vars

\* a run halted on its manifest after it had persisted records
C19_Witness ==
    /\ pc = "halted"
    /\ ~Readable(manifest)
    /\ fs /= SetupFiles
    /\ \E i \in 1..Len(result) : ~result[i].returned

\* the record files location-<id>-<year>.json the run wrote or rewrote
RunPersisted ==
    {p \in DOMAIN fs :
        /\ CategoryOf(p.dir) /= "none"
        /\ Len(p.parts) = 3
        /\ (p \notin DOMAIN SetupFiles \/ fs[p] /= SetupFiles[p])}

\* organized[<id>][<category>][<year>] of the manifest is the path p
Indexed(p) ==
    /\ "organized" \in DOMAIN manifest
    /\ p.parts[2] \in DOMAIN manifest.organized
    /\ p.parts[3] \in DOMAIN manifest.organized[p.parts[2]][CategoryOf(p.dir)]
    /\ manifest.organized[p.parts[2]][CategoryOf(p.dir)][p.parts[3]] = p

\* C20: the manifest is written only once the loops are over, no record is
\* written in or after that step, and in a completed run the manifest
\* indexes every record file the run persisted under its id, category and
\* year.
C20_ReindexFollowsPersist ==
    /\ [][/\ manifest' /= manifest =>
                 RunPending /\ input.next > Len(input.items) /\ fs' = fs
          /\ fs' /= fs => RunPending' /\ manifest' = manifest]_vars
    /\ [](pc = "done" => \A p \in RunPersisted : Indexed(p))

\* a completed run that persisted records of two categories
C20_Witness ==
    /\ pc = "done"
    /\ \E p, q \in RunPersisted : p.dir /= q.dir
    /\ \A p \in RunPersisted : Indexed(p)

\* the categories a manifest entry maps
FiveCategories == {"watershed", "temperature", "flow", "quality", "stage"}

\* a file path, as opposed to a mapping or a missing value
IsPath(x) == DOMAIN x = {"dir", "parts", "ext"}

\* every entry of organized maps watershed to one path and each other
\* category to a mapping from year to path
EntriesComplete ==
    \A id \in DOMAIN manifest.organized :
        /\ DOMAIN manifest.organized[id] = FiveCategories
        /\ IsPath(manifest.organized[id].watershed)
        /\ \A c \in FiveCategories \ {"watershed"} :
               \A y \in DOMAIN manifest.organized[id][c] :
                   IsPath(manifest.organized[id][c][y])

\* C24: after any of the three manifest updaters ran, every entry of
\* organized maps the five categories watershed, temperature, flow, quality
\* and stage: watershed to one path, the others to year -> path mappings.
C24_EntriesHaveFiveCategories ==
    (UpdatedByUSGS \/ UpdatedByWater \/ UpdatedBySample) => EntriesComplete

\* the same for the update_manifest methods of the two processors alone
C24_ProcessorEntriesComplete ==
    (UpdatedByUSGS \/ UpdatedByWater) => EntriesComplete

\* C28: on every content of the category directories and the same prior
\* manifest, the update_manifest methods of USGSRawDataProcessor and of
\* WaterDataProcessor produce the same manifest (organized and statistics).
C28_IndexersEquivalent ==
    U_update_manifest(manifest, fs) = W_update_manifest(manifest, fs)

\* the two differ in nothing but locations_covered
C28_IndexersAgreeButLocations ==
    [U_update_manifest(manifest, fs) EXCEPT !.statistics.locations_covered = 0]
        = [W_update_manifest(manifest, fs)
               EXCEPT !.statistics.locations_covered = 0]

\* the three statistics update_manifest sets
IndexedStatistics == {"total_files", "locations_covered", "years_covered"}

\* C30: the step of update_manifest that writes the manifest changes no
\* data file and, in the manifest, nothing but organized and the three
\* statistics total_files, locations_covered and years_covered: the
\* manifest keeps its fields, and every other field and every other
\* statistic keeps its value.
C30_UpdateManifestFrame ==
    [][(manifest' /= manifest \/ pc' = "done") =>
          /\ fs' = fs
          /\ DOMAIN manifest' = DOMAIN manifest
          /\ \A k \in (DOMAIN manifest) \ {"statistics", "organized"} :
                 manifest'[k] = manifest[k]
          /\ DOMAIN manifest'.statistics = DOMAIN manifest.statistics
          /\ \A k \in (DOMAIN manifest.statistics) \ IndexedStatistics :
                 manifest'.statistics[k] = manifest.statistics[k]]_vars

\* a completed run rewrote a manifest that carries a field and a statistic
\* of its own, after persisting records
C30_Witness ==
    /\ pc = "done"
    /\ "description" \in DOMAIN manifest
    /\ "data_types" \in DOMAIN manifest.statistics
    /\ manifest /= EarlierManifest
    /\ fs /= SetupFiles

\* the sequence s back to front
Reverse(s) == [i \in 1..Len(s) |-> s[Len(s) + 1 - i]]

\* every order of the elements of the sequence s
Orders(s) == {[i \in 1..Len(s) |-> s[f[i]]] : f \in Permutations(1..Len(s))}

\* the raw files with the series of each file in the opposite order
SeriesReversed(raw_files) ==
    [i \in 1..Len(raw_files) |->
        [raw_files[i] EXCEPT !.time_series = Reverse(@)]]

\* process_all_raw_files has gone through its listing
AllRawFilesProcessed ==
    pc = "process_all_raw_files" /\ input.next > Len(input.items)

\* C29: when process_all_raw_files has gone through its raw files, the
\* record files and their contents are those any other order of the raw
\* files, and the opposite order of the series within each file, produce.
C29_OrderIndependent ==
    AllRawFilesProcessed =>
        \A order \in Orders(input.items) :
            /\ ProcessAll(SetupFiles, order) = fs
            /\ ProcessAll(SetupFiles, SeriesReversed(order)) = fs

\* the record files a series is written to
TargetsOf(series) ==
    IF ~Resolves(series) THEN {}
    ELSE {KeyPath(series, series.values[j]) : j \in 1..Len(series.values)}

\* the series of the raw files, as <<file, index>> pairs
SeriesOf(raw_files) ==
    UNION {{<<i, j>> : j \in 1..Len(raw_files[i].time_series)} :
              i \in 1..Len(raw_files)}

\* no two series of the raw files are written to the same record file
DisjointTargets(raw_files) ==
    \A a, b \in SeriesOf(raw_files) :
        a /= b =>
            TargetsOf(raw_files[a[1]].time_series[a[2]])
                \cap TargetsOf(raw_files[b[1]].time_series[b[2]]) = {}

\* the order does not matter when every series has record files of its own
C29_OrderIndependentOnDisjointTargets ==
    (AllRawFilesProcessed /\ DisjointTargets(input.items)) =>
        C29_OrderIndependent

\* a qualifier list the classifiers map to the tier
TierQualifiers(tier) ==
    CASE tier = "good" -> <<>>
      [] tier = "fair" -> <<"P">>
      [] tier = "poor" -> <<"R">>

\* daily records as raw samples: the date as dateTime, the value as json
\* writes it, the tier as a qualifier
AsSamples(daily) ==
    [i \in 1..Len(daily) |->
        [dateTime |-> daily[i].date * 100,
         value |-> Repr(daily[i].value),
         qualifiers |-> TierQualifiers(daily[i].quality)]]

\* daily records as the data points WaterDataProcessor aggregates
AsPoints(daily) ==
    [i \in 1..Len(daily) |->
        [date |-> daily[i].date, value |-> Some(daily[i].value),
         quality |-> daily[i].quality]]

\* C25: aggregating the daily records of a persisted series again, each
\* record as one sample with its date, value and tier, gives the same daily
\* records: same dates in the same order, same values, same tiers.
C25_ReaggregationIsFixedPoint ==
    \A p \in SeriesFiles :
        /\ pc = "usgs" =>
               U_convert_to_daily_data(AsSamples(fs[p].data), fs[p].parameter)
                   = fs[p].data
        /\ pc = "water" =>
               W_convert_to_daily_data(AsPoints(fs[p].data),
                                       OutputKey(fs[p].parameter))
                   = fs[p].data

\* a series was aggregated to two days, one of them a mean of two samples
\* that is not good
C25_Witness ==
    /\ pc = "usgs"
    /\ \E p \in SeriesFiles :
           /\ Len(fs[p].data) = 2
           /\ \E i \in 1..2 : fs[p].data[i].quality /= "good"
           /\ \E i \in 1..2 : fs[p].data[i].value % 1000 /= 0

\* every sample of the record at p lies in the year of the record and of
\* the file name
DatesInYear(p) ==
    /\ \A i \in 1..Len(fs[p].data) : YearOf(fs[p].data[i].date) = fs[p].year
    /\ Len(p.parts) = 3 /\ IntOk(p.parts[3]) /\ IntOf(p.parts[3]) = fs[p].year

\* C26: in every persisted time-series record each sample's date lies in
\* the calendar year the record's year field and its file name give.
C26_DatesInRecordYear == \A p \in SeriesFiles : DatesInYear(p)

(* ---- the validator (SpecValidate) ---- *)
CategoryDirs == {"03-temperature", "04-quality", "05-flow", "06-stage"}

\* the value keys a daily entry of the category may carry
CategoryKeys(dir) ==
    CASE dir = "03-temperature" -> {"temperature_c"}
      [] dir = "05-flow" -> {"flow_cfs"}
      [] dir = "04-quality" -> quality_params
      [] dir = "06-stage" -> {"stage_ft"}

\* the content at p is a time-series record but for its data field
IsRecordWithoutData(p) ==
    /\ p.dir \in CategoryDirs
    /\ DOMAIN fs[p] = DOMAIN Without(Record(0, "", 0, "flow", <<>>,
                                             InconsistentStatistics, ""),
                                      "data")

\* the content at p is a time-series record of its category with every
\* field and every daily value of the right kind
SchemaOk(p) ==
    /\ p.dir \in CategoryDirs
    /\ DOMAIN fs[p] = DOMAIN Record(0, "", 0, "flow", <<>>,
                                    InconsistentStatistics, "")
    /\ \A i \in 1..Len(fs[p].data) :
           /\ fs[p].data[i].key \in CategoryKeys(p.dir)
           /\ "text" \notin DOMAIN fs[p].data[i]
    /\ "text" \notin DOMAIN fs[p].statistics

StatisticsConsistent(p) ==
    /\ fs[p].statistics.min <= fs[p].statistics.mean
    /\ fs[p].statistics.mean <= fs[p].statistics.max

\* the daily entries of the record at p with an implausible value
Offending(p) ==
    {i \in 1..Len(fs[p].data) :
        LET day == fs[p].data[i]
        IN  \/ day.key = "temperature_c"
               /\ (day.value < -5000 \/ day.value > 25000)
            \/ day.key = "flow_cfs"
               /\ (day.value < 0 \/ day.value > 50000000)
            \/ day.key = "ph" /\ (day.value < 4000 \/ day.value > 10000)}

\* what the step appended to the errors and to the warnings
NewErrors ==
    SubSeq(result'.errors, Len(result.errors) + 1, Len(result'.errors))

NewWarnings ==
    SubSeq(result'.warnings, Len(result.warnings) + 1, Len(result'.warnings))

CountedValid ==
    /\ result'.files_valid = result.files_valid + 1
    /\ result'.files_invalid = result.files_invalid

CountedInvalid ==
    /\ result'.files_invalid = result.files_invalid + 1
    /\ result'.files_valid = result.files_valid

\* validate_file on a record without data, in one of `dirs`: one more
\* error, for that file, and the file counted invalid
MissingDataIsError(dirs) ==
    \A p \in DOMAIN fs :
        (input' = p /\ p.dir \in dirs /\ IsRecordWithoutData(p))
        => /\ Len(NewErrors) = 1
           /\ NewErrors[1].file = p
           /\ CountedInvalid

\* C21: validate_file on a time-series record of any category directory
\* (03-temperature, 04-quality, 05-flow, 06-stage) that lacks the data
\* field appends an error for that file and counts the file invalid, not
\* valid.
C21_MissingDataIsError == [][MissingDataIsError(CategoryDirs)]_vars

\* the same, in the three directories validate_file has a method for
C21_MissingDataIsErrorButStage ==
    [][MissingDataIsError(CategoryDirs \ {"06-stage"})]_vars

\* C22: validate_file on a record whose only defects are implausible values
\* (temperature outside [-5, 25], flow outside [0, 50000], pH outside
\* [4, 10]) appends one warning for each offending value and no error, and
\* counts the file valid.
C22_ImplausibleValuesWarned ==
    [][\A p \in DOMAIN fs :
          (input' = p /\ SchemaOk(p) /\ StatisticsConsistent(p)
           /\ Offending(p) /= {})
          => /\ NewErrors = <<>>
             /\ CountedValid
             /\ Len(NewWarnings) = Cardinality(Offending(p))
             /\ \A i \in Offending(p) :
                    \E k \in 1..Len(NewWarnings) :
                        NewWarnings[k] = [file |-> p, type |-> "unusual_value",
                                          index |-> i]]_vars

\* a pH record with the values 11.0 and 3.5 was validated after a
\* temperature record with 30.0 and -6.0: four warnings, both files valid
C22_Witness ==
    /\ pc = "validate_file"
    /\ input = SeriesPath("04-quality", 410, 2025)
    /\ SchemaOk(input) /\ StatisticsConsistent(input)
    /\ Cardinality(Offending(input)) = 2
    /\ Len(result.warnings) = 4
    /\ result.warnings[1].file = SeriesPath("03-temperature", 410, 2025)
    /\ result.files_valid = 2
    /\ result.errors = <<>>

\* validate_file on a record, in one of `dirs`, whose statistics violate
\* min <= mean <= max: a warning for that file, and the file counted valid
InconsistentStatisticsWarned(dirs) ==
    \A p \in DOMAIN fs :
        (input' = p /\ p.dir \in dirs /\ SchemaOk(p)
         /\ ~StatisticsConsistent(p))
        => /\ \E k \in 1..Len(NewWarnings) : NewWarnings[k].file = p
           /\ CountedValid

\* C23: for a record of any time-series category whose statistics violate
\* min <= mean <= max, the validator records a warning for that file and
\* still counts the file valid.
C23_InconsistentStatisticsWarned ==
    [][InconsistentStatisticsWarned(CategoryDirs)]_vars

\* the same, for the records of 03-temperature
C23_TemperatureStatisticsWarned ==
    [][InconsistentStatisticsWarned({"03-temperature"})]_vars

\* C27: after any sequence of validate_file calls, whatever the files hold,
\* files_checked = files_valid + files_invalid, and files_checked is the
\* number of calls: each call counts its file once, as valid or as invalid.
C27_CountsBalance ==
    pc \in {"start", "validate_file"} /\ DOMAIN result = DOMAIN V_NewResults
    => /\ result.files_checked = ops
       /\ result.files_checked = result.files_valid + result.files_invalid

\* a valid record and a file whose validation raised were both counted
C27_Witness ==
    /\ pc = "validate_file"
    /\ result.files_checked = 2
    /\ result.files_valid = 1
    /\ result.files_invalid = 1
    /\ Len(result.errors) = 1
    /\ result.errors[1].type = "unexpected_error"

====
